---- MODULE Spec2Model ----
(***************************************************************************)
(* Model of the query-result cache of the job scraper backend:             *)
(*   src/redis_cache.py     RedisJobDataCache  (networked hash store)      *)
(*   src/cache.py           JobDataCache, CachedJobScraper (JSON files)    *)
(*   src/cached_scraper.py  RedisCachedJobScraper                          *)
(*                                                                         *)
(* Python strings that the code inspects (substring tests, concatenation,  *)
(* formatting) are sequences of one-character strings.  An optional        *)
(* argument is <<>> for None and <<s>> for the string s.  hashlib.md5 is   *)
(* taken to be injective: the digest of s is s behind the marker "#".      *)
(* The clock counts whole seconds.                                         *)
(***************************************************************************)
EXTENDS Integers, Sequences, FiniteSets, TLC

VARIABLES
  backend,  \* "redis": RedisCachedJobScraper, "fs": CachedJobScraper
  now,      \* the clock, in seconds
  jobs,     \* redis: the hashes job-scraping:<job_id>
  search,   \* redis: the hashes search:<cache_key>
  active,   \* redis: the set active_searches
  files,    \* fs: the files <cache_key>.json of the cache directory
  putAt,    \* history: per cache key, when the last put on it succeeded, else -1
  last,     \* history: the operation that led to this state
  procs,    \* the get_jobs calls that run concurrently, store call by store call
  applied   \* a pure function applied to drawn arguments, with its results

vars == <<backend, now, jobs, search, active, files, putAt, last, procs, applied>>

----------------------------------------------------------------------------
(* Bounds of the model *)

MaxTime == 3
MaxFault == 8
MaxLimit == 2

(* cache_duration_hours * 3600, scaled to the model's clock *)
CacheDuration == 2

----------------------------------------------------------------------------
(* Python string helpers *)

\* the lower-case letter of an upper-case letter, any other character as it is
LowerChar(c) ==
  CASE c = "A" -> "a" [] c = "B" -> "b" [] c = "C" -> "c" [] c = "D" -> "d"
    [] c = "E" -> "e" [] c = "F" -> "f" [] c = "G" -> "g" [] c = "H" -> "h"
    [] c = "I" -> "i" [] c = "J" -> "j" [] c = "K" -> "k" [] c = "L" -> "l"
    [] c = "M" -> "m" [] c = "N" -> "n" [] c = "O" -> "o" [] c = "P" -> "p"
    [] c = "Q" -> "q" [] c = "R" -> "r" [] c = "S" -> "s" [] c = "T" -> "t"
    [] c = "U" -> "u" [] c = "V" -> "v" [] c = "W" -> "w" [] c = "X" -> "x"
    [] c = "Y" -> "y" [] c = "Z" -> "z"
    [] OTHER -> c

\* str.lower()
Lower(s) == [i \in 1..Len(s) |-> LowerChar(s[i])]

\* sub in s
Contains(sub, s) ==
  \E i \in 0..(Len(s) - Len(sub)) : SubSeq(s, i + 1, i + Len(sub)) = sub

DigitChars == <<"0","1","2","3","4","5","6","7","8","9">>

RECURSIVE IntStr(_)
\* str(n) for n >= 0
IntStr(n) ==
  IF n < 10 THEN <<DigitChars[n + 1]>>
  ELSE IntStr(n \div 10) \o <<DigitChars[(n % 10) + 1]>>

\* str(b) for a bool
BoolStr(b) == IF b THEN <<"T","r","u","e">> ELSE <<"F","a","l","s","e">>

\* f"{x}" for an Optional[str]
OptStr(o) == IF o = <<>> THEN <<"N","o","n","e">> ELSE o[1]

\* dict.get(key, default)
Get(d, k, default) == IF k \in DOMAIN d THEN d[k] ELSE default

\* the sequences that enumerate the set S once each (iteration orders of a set)
Orders(S) ==
  {s \in [1..Cardinality(S) -> S] : \A i, j \in 1..Cardinality(S) : s[i] = s[j] => i = j}

\* hashlib.md5(s.encode()).hexdigest()
Md5(s) == <<"#">> \o s

----------------------------------------------------------------------------
(* json.dumps / json.loads on a list of strings: the text is a sequence of  *)
(* tokens, <<"p", c>> for the punctuation c and <<"q", s>> for the string   *)
(* literal s.                                                               *)

LBr == <<"p", <<"[">>>>
RBr == <<"p", <<"]">>>>
Comma == <<"p", <<",">>>>

RECURSIVE JsonItems(_)
JsonItems(l) ==
  IF l = <<>> THEN <<>>
  ELSE IF Len(l) = 1 THEN <<<<"q", l[1]>>>>
  ELSE <<<<"q", l[1]>>, Comma>> \o JsonItems(Tail(l))

\* json.dumps(l)
JsonDumps(l) == <<LBr>> \o JsonItems(l) \o <<RBr>>

RECURSIVE ParseItems(_)
\* the items of "s1, s2, ..." ; [ok |-> FALSE] when the text is not of that form
ParseItems(toks) ==
  IF toks = <<>> THEN [ok |-> FALSE, v |-> <<>>]
  ELSE IF toks[1][1] # "q" THEN [ok |-> FALSE, v |-> <<>>]
  ELSE IF Len(toks) = 1 THEN [ok |-> TRUE, v |-> <<toks[1][2]>>]
  ELSE IF toks[2] # Comma THEN [ok |-> FALSE, v |-> <<>>]
  ELSE LET r == ParseItems(SubSeq(toks, 3, Len(toks)))
       IN  [ok |-> r.ok, v |-> <<toks[1][2]>> \o r.v]

\* a parser that reads every text it cannot parse as the empty list
JsonLoadsLenient(text) ==
  IF Len(text) < 2 \/ text[1] # LBr \/ text[Len(text)] # RBr
  THEN [ok |-> TRUE, v |-> <<>>]
  ELSE IF Len(text) = 2 THEN [ok |-> TRUE, v |-> <<>>]
  ELSE [ok |-> TRUE, v |-> ParseItems(SubSeq(text, 2, Len(text) - 1)).v]

\* json.loads(text): ok = FALSE stands for json.JSONDecodeError
JsonLoads(text) ==
  IF Len(text) < 2 \/ text[1] # LBr \/ text[Len(text)] # RBr
  THEN [ok |-> FALSE, v |-> <<>>]
  ELSE IF Len(text) = 2 THEN [ok |-> TRUE, v |-> <<>>]
  ELSE ParseItems(SubSeq(text, 2, Len(text) - 1))

\* datetime.isoformat() of the instant t
IsoFormat(t) == [iso |-> t]

\* datetime.fromisoformat(s): ok = FALSE stands for ValueError
FromIso(s) ==
  IF "iso" \in DOMAIN s THEN [ok |-> TRUE, v |-> s.iso] ELSE [ok |-> FALSE, v |-> 0]

----------------------------------------------------------------------------
(* The key-value store: jobs holds the hashes job-scraping:<job_id>, search *)
(* the hashes search:<cache_key>, active the set active_searches.  A hash   *)
(* is [h |-> field-map, ttl |-> deadline]; a key with a deadline is visible *)
(* as long as now <= deadline and is purged by the clock after that.        *)

NoTTL == -1

EmptyMap == <<>>

Put(fn, k, v) == [x \in DOMAIN fn \cup {k} |-> IF x = k THEN v ELSE fn[x]]

Drop(fn, K) == [x \in DOMAIN fn \ K |-> fn[x]]

Merge(old, new) ==
  [k \in DOMAIN old \cup DOMAIN new |-> IF k \in DOMAIN new THEN new[k] ELSE old[k]]

\* an EXPIRE that sets no deadline
ExpireNever(tbl, key, t, secs) == tbl

\* EXPIRE key secs, issued at time t
Expire(tbl, key, t, secs) ==
  IF key \in DOMAIN tbl THEN Put(tbl, key, [h |-> tbl[key].h, ttl |-> t + secs]) ELSE tbl

\* an HSET that leaves an existing hash as it is
HSetIfAbsent(tbl, key, fields) ==
  IF key \in DOMAIN tbl THEN tbl ELSE Put(tbl, key, [h |-> fields, ttl |-> NoTTL])

\* HSET key mapping: creates the hash or overwrites the given fields; keeps the TTL
HSet(tbl, key, fields) ==
  IF key \in DOMAIN tbl
  THEN Put(tbl, key, [h |-> Merge(tbl[key].h, fields), ttl |-> tbl[key].ttl])
  ELSE Put(tbl, key, [h |-> fields, ttl |-> NoTTL])

\* an SADD that adds nothing
SAddNothing(set, member) == set

\* SADD key member
SAdd(set, member) == set \cup {member}

SRemNothing(set, member) == set

\* SREM active_searches member
SRem(set, member) == set \ {member}

\* a DEL that removes nothing
DelNothing(tbl, keys) == tbl

\* DEL key [key ...]
Del(tbl, keys) == Drop(tbl, keys)

\* HGETALL key: the empty map for a key that does not exist
HGetAll(tbl, key) == IF key \in DOMAIN tbl THEN tbl[key].h ELSE EmptyMap

\* the keys whose deadline has passed at time t
Expired(tbl, t) == {k \in DOMAIN tbl : tbl[k].ttl # NoTTL /\ tbl[k].ttl < t}

(* A handler runs on a context c: the store, the number n of store calls   *)
(* issued so far, the number f of the store call that raises (0: none) and *)
(* the log of the store writes that took effect.                           *)

Ctx(j, s, a, f) == [jobs |-> j, search |-> s, active |-> a, n |-> 0, f |-> f, log |-> <<>>]

\* the next store call raises
Raises(c) == c.n + 1 = c.f

\* a store call was issued
Called(c) == [c EXCEPT !.n = @ + 1]

Logged(c, call, ns, key) ==
  [c EXCEPT !.log = Append(@, [call |-> call, ns |-> ns, key |-> key])]

----------------------------------------------------------------------------
(* RecordCodec *)

SP == <<" ">>

remote_indicators ==
  << <<"r","e","m","o","t","e">>,
     <<"w","o","r","k"," ","f","r","o","m"," ","h","o","m","e">>,
     <<"w","f","h">>,
     <<"t","e","l","e","c","o","m","m","u","t","e">> >>

hybrid_indicators ==
  << <<"h","y","b","r","i","d">>,
     <<"f","l","e","x","i","b","l","e">>,
     <<"p","a","r","t"," ","r","e","m","o","t","e">> >>

_determine_remote_status(job_data) ==
  LET location == Lower(Get(job_data, "location", <<>>))
      description == Lower(Get(job_data, "description", <<>>))
      title == Lower(Get(job_data, "title", <<>>))
      combined_text == location \o SP \o description \o SP \o title
  IN  IF \E i \in 1..Len(hybrid_indicators) : Contains(hybrid_indicators[i], combined_text)
      THEN "Hybrid"
      ELSE IF \E i \in 1..Len(remote_indicators) : Contains(remote_indicators[i], combined_text)
      THEN "Yes"
      ELSE "No"

\* line 74: the three fields written one after the other, nothing between
job_id_source(job_data) ==
  Get(job_data, "title", <<>>) \o Get(job_data, "company", <<>>)
     \o Get(job_data, "location", <<>>)

\* a job_id that is drawn from the salary as well
JobIdWithSalary(job_data) ==
  IF "job_id" \in DOMAIN job_data THEN job_data.job_id
  ELSE Md5(Get(job_data, "title", <<>>) \o Get(job_data, "company", <<>>)
           \o Get(job_data, "location", <<>>) \o Get(job_data, "salary", <<>>))

\* the job_id save_job_to_redis uses: the record's own, else md5(title+company+location)[:12]
JobId(job_data) ==
  IF "job_id" \in DOMAIN job_data THEN job_data.job_id
  ELSE Md5(job_id_source(job_data))

\* job_data after line 75: the job_id is stored into the caller's dict
WithJobId(job_data) ==
  IF "job_id" \in DOMAIN job_data THEN job_data
  ELSE Merge(job_data, [job_id |-> JobId(job_data)])

\* encode: the field-map written for job_data at time t
redis_fields(job_data, t) ==
  [title |-> Get(job_data, "title", <<>>),
   company |-> Get(job_data, "company", <<>>),
   skills |-> JsonDumps(Get(job_data, "skills", <<>>)),
   salary |-> Get(job_data, "salary", ""),
   location |-> Get(job_data, "location", <<>>),
   job_type |-> Get(job_data, "job_type", ""),
   experience_level |-> Get(job_data, "experience_level", ""),
   category |-> Get(job_data, "category", ""),
   posted_date |-> Get(job_data, "posted_date", ""),
   url |-> Get(job_data, "job_url", ""),
   job_id |-> JobId(job_data),
   requirements |-> JsonDumps(Get(job_data, "requirements", <<>>)),
   responsibilities |-> Get(job_data, "description", <<>>),
   employment_type |-> Get(job_data, "employment_type", ""),
   remote |-> _determine_remote_status(job_data),
   is_trusted_company |-> BoolStr(Get(job_data, "is_trusted_company", FALSE)),
   created_at |-> IsoFormat(t),
   expires_at |-> IsoFormat(t + CacheDuration)]

\* decode: {} (the empty map) when a nested field does not parse
_process_redis_job_data(h) ==
  LET req == JsonLoads(Get(h, "requirements", JsonDumps(<<>>)))
      ski == JsonLoads(Get(h, "skills", JsonDumps(<<>>)))
  IN  IF ~req.ok \/ ~ski.ok THEN EmptyMap
      ELSE [title |-> Get(h, "title", <<>>),
            company |-> Get(h, "company", <<>>),
            location |-> Get(h, "location", <<>>),
            description |-> Get(h, "responsibilities", <<>>),
            requirements |-> req.v,
            job_type |-> Get(h, "job_type", ""),
            skills |-> ski.v,
            posted_date |-> Get(h, "posted_date", ""),
            job_url |-> Get(h, "url", ""),
            salary |-> Get(h, "salary", ""),
            category |-> Get(h, "category", ""),
            is_trusted_company |-> (Get(h, "is_trusted_company", BoolStr(FALSE)) = BoolStr(TRUE)),
            experience_level |-> Get(h, "experience_level", ""),
            employment_type |-> Get(h, "employment_type", ""),
            job_id |-> Get(h, "job_id", <<>>),
            remote_work |-> Get(h, "remote", "No")]

----------------------------------------------------------------------------
(* RedisJobDataCache: put *)

\* one record: HSET then EXPIRE; any exception gives False
save_job_to_redis(c, job_data, t) ==
  LET Stored(job_id, c1) ==
        IF Raises(c1) THEN [c |-> Called(c1), ok |-> FALSE]
        ELSE [c |-> Logged([Called(c1) EXCEPT !.jobs = Expire(@, job_id, t, CacheDuration)],
                           "expire", "job", job_id),
              ok |-> TRUE]
      Identified(job_id) ==
        Stored(job_id, Logged([Called(c) EXCEPT !.jobs = HSet(@, job_id, redis_fields(job_data, t))],
                              "hset", "job", job_id))
  IN  IF Raises(c) THEN [c |-> Called(c), ok |-> FALSE]
      ELSE Identified(JobId(job_data))

CollectAlways(saved, ok, job_id) == Append(saved, job_id)

\* if self.save_job_to_redis(job_data): saved_job_ids.append(...)
Collect(saved, ok, job_id) == IF ok THEN Append(saved, job_id) ELSE saved

RECURSIVE SaveJobs(_, _, _, _)
\* lines 135-138: the loop over jobs_data, collecting saved_job_ids
SaveJobs(c, jobs_data, saved, t) ==
  LET Rest(r) ==
        SaveJobs(r.c, Tail(jobs_data), Collect(saved, r.ok, JobId(Head(jobs_data))), t)
  IN  IF jobs_data = <<>> THEN [c |-> c, saved |-> saved]
      ELSE Rest(save_job_to_redis(c, Head(jobs_data), t))

\* the index entry built at lines 141-148
search_metadata(cache_key, saved_job_ids, metadata, t) ==
  [cache_key |-> cache_key,
   job_ids |-> JsonDumps(saved_job_ids),
   job_count |-> Len(saved_job_ids),
   metadata |-> [obj |-> metadata],
   created_at |-> IsoFormat(t),
   expires_at |-> IsoFormat(t + CacheDuration)]

\* the store as the clock reaches t: the keys whose deadline is behind are gone
Purged(c, t) ==
  [c EXCEPT !.jobs = Drop(@, Expired(@, t)), !.search = Drop(@, Expired(@, t))]

\* slip: where the clock advances by one second while the handler runs
\*   0 nowhere, 1 after the loop over jobs_data (line 138),
\*   2 after search_metadata is built (line 148)
save_to_cache(c, cache_key, jobs_data, metadata, t, slip) ==
  LET t1 == IF slip = 1 THEN t + 1 ELSE t
      t2 == IF slip = 2 THEN t1 + 1 ELSE t1
      out(r, cx, ok) == [c |-> cx, ok |-> ok, saved |-> r.saved, t |-> t2, created |-> t1]
      Expiring(r, c2) ==
        IF Raises(c2) THEN out(r, Called(c2), FALSE)
        ELSE out(r, Logged([Called(c2) EXCEPT !.active = SAdd(@, cache_key)],
                           "sadd", "active", cache_key), TRUE)
      Indexed(r, c1) ==
        IF Raises(c1) THEN out(r, Called(c1), FALSE)
        ELSE Expiring(r, Logged([Called(c1) EXCEPT
                                   !.search = Expire(@, cache_key, t2, CacheDuration)],
                                "expire", "search", cache_key))
      Looped(r, c0) ==
        IF Raises(c0) THEN out(r, Called(c0), FALSE)
        ELSE Indexed(r, Logged([Called(c0) EXCEPT
                                  !.search = HSet(@, cache_key,
                                                  search_metadata(cache_key, r.saved, metadata, t1))],
                               "hset", "search", cache_key))
      Begun(r) == Looped(r, IF slip = 0 THEN r.c ELSE Purged(r.c, t2))
  IN  Begun(SaveJobs(c, jobs_data, <<>>, t))

----------------------------------------------------------------------------
(* RedisJobDataCache: clear of one search *)

\* a truth test that takes every mapping for non-empty
IsEmptyNever(d) == FALSE

\* `not d` for a dict d
IsEmpty(d) == DOMAIN d = {}

RECURSIVE DeleteJobs(_, _)
\* a delete that counts references: a record named by more than one index
\* entry is kept
DeleteJobsCounted(c, ids) ==
  LET Refs(id) == {k \in DOMAIN c.search :
                     /\ "job_ids" \in DOMAIN c.search[k].h
                     /\ \E i \in 1..Len(JsonLoads(c.search[k].h.job_ids).v) :
                           JsonLoads(c.search[k].h.job_ids).v[i] = id}
      gone == {ids[i] : i \in {j \in 1..Len(ids) : Cardinality(Refs(ids[j])) <= 1}}
  IN  [c |-> [c EXCEPT !.jobs = Drop(@, gone)], exc |-> FALSE]

\* lines 283-284: DEL job-scraping:<id> for each id; exc when a call raised
DeleteJobs(c, ids) ==
  IF ids = <<>> THEN [c |-> c, exc |-> FALSE]
  ELSE IF Raises(c) THEN [c |-> Called(c), exc |-> TRUE]
  ELSE DeleteJobs(Logged([Called(c) EXCEPT !.jobs = Drop(@, {Head(ids)})],
                         "del", "job", Head(ids)),
                  Tail(ids))

\* every exception is caught and logged: the result is the store left behind
clear_search_cache(c, cache_key) ==
  IF Raises(c) THEN Called(c)
  ELSE LET c1 == Called(c)
           search_data == HGetAll(c1.search, cache_key)
           named == ~IsEmpty(search_data) /\ "job_ids" \in DOMAIN search_data
           job_ids == IF named THEN JsonLoads(search_data.job_ids)
                      ELSE [ok |-> TRUE, v |-> <<>>]
       IN  IF ~job_ids.ok THEN c1
           ELSE LET r == DeleteJobs(c1, job_ids.v)
                IN  IF r.exc THEN r.c
                    ELSE IF Raises(r.c) THEN Called(r.c)
                    ELSE LET c2 == Logged([Called(r.c) EXCEPT !.search = Drop(@, {cache_key})],
                                          "del", "search", cache_key)
                         IN  IF Raises(c2) THEN Called(c2)
                             ELSE Logged([Called(c2) EXCEPT !.active = SRem(@, cache_key)],
                                         "srem", "active", cache_key)

----------------------------------------------------------------------------
(* RedisJobDataCache: get *)

\* load_from_cache returning None
PyNone == [hit |-> FALSE]

RECURSIVE LoadJobs(_, _, _)
\* lines 184-189: HGETALL per referenced id, a missing record is skipped
LoadJobs(c, job_ids, jobs_data) ==
  IF job_ids = <<>> THEN [c |-> c, exc |-> FALSE, data |-> jobs_data]
  ELSE IF Raises(c) THEN [c |-> Called(c), exc |-> TRUE, data |-> jobs_data]
  ELSE LET job_data == HGetAll(c.jobs, Head(job_ids))
       IN  LoadJobs(Called(c), Tail(job_ids),
                    IF ~IsEmpty(job_data)
                    THEN Append(jobs_data, _process_redis_job_data(job_data))
                    ELSE jobs_data)

\* an expiry check that already refuses the entry one second early
IsExpiredEarly(t, expires_at) == t + 1 >= expires_at

\* line 176: `datetime.now() > expires_at`
IsExpired(t, expires_at) == t > expires_at

\* the exception handler of load_from_cache turns every exception into None
load_from_cache(c, cache_key, t) ==
  IF Raises(c) THEN [c |-> Called(c), res |-> PyNone]
  ELSE LET c1 == Called(c)
           search_data == HGetAll(c1.search, cache_key)
       IN  IF IsEmpty(search_data) THEN [c |-> c1, res |-> PyNone]
           ELSE LET expires_at == FromIso(Get(search_data, "expires_at", [raw |-> ""]))
                IN  IF ~expires_at.ok THEN [c |-> c1, res |-> PyNone]
                    ELSE IF IsExpired(t, expires_at.v)
                    THEN [c |-> clear_search_cache(c1, cache_key), res |-> PyNone]
                    ELSE LET job_ids == JsonLoads(Get(search_data, "job_ids", JsonDumps(<<>>)))
                         IN  IF ~job_ids.ok THEN [c |-> c1, res |-> PyNone]
                             ELSE LET r == LoadJobs(c1, job_ids.v, <<>>)
                                      metadata == Get(search_data, "metadata", [obj |-> EmptyMap])
                                  IN  IF r.exc \/ "obj" \notin DOMAIN metadata
                                      THEN [c |-> r.c, res |-> PyNone]
                                      ELSE [c |-> r.c,
                                            res |-> [hit |-> TRUE,
                                                     timestamp |-> Get(search_data, "created_at", [raw |-> ""]),
                                                     cache_key |-> cache_key,
                                                     metadata |-> metadata.obj,
                                                     job_count |-> Len(r.data),
                                                     data |-> r.data]]

----------------------------------------------------------------------------
(* RedisJobDataCache: sweeps *)

\* the members of the sequence keys that are in the set S, in the order of keys
Restrict(keys, S) == LET In(k) == k \in S IN SelectSeq(keys, In)

RECURSIVE ScanExpired(_, _, _, _, _)
\* lines 239-247 and 255-263: HGET key expires_at for each key of tbl in turn
ScanExpired(c, tbl, keys, found, t) ==
  IF keys = <<>> THEN [c |-> c, exc |-> FALSE, found |-> found]
  ELSE IF Raises(c) THEN [c |-> Called(c), exc |-> TRUE, found |-> found]
  ELSE LET h == HGetAll(tbl, Head(keys))
           stamped == "expires_at" \in DOMAIN h
           expires_at == IF stamped THEN FromIso(h.expires_at) ELSE [ok |-> TRUE, v |-> t]
           expired == stamped /\ (~expires_at.ok \/ t > expires_at.v)
       IN  ScanExpired(Called(c), tbl, Tail(keys),
                       IF expired THEN Append(found, Head(keys)) ELSE found, t)

RECURSIVE ClearSearches(_, _)
ClearSearches(c, keys) ==
  IF keys = <<>> THEN c ELSE ClearSearches(clear_search_cache(c, Head(keys)), Tail(keys))

\* sorder, jorder: the orders in which SMEMBERS and KEYS list the keys
clear_expired_cache(c, t, sorder, jorder) ==
  IF Raises(c) THEN [c |-> Called(c), failed |-> TRUE]
  ELSE LET c1 == Called(c)
           s == ScanExpired(c1, c1.search, Restrict(sorder, c1.active), <<>>, t)
       IN  IF s.exc THEN [c |-> s.c, failed |-> TRUE]
           ELSE LET c2 == ClearSearches(s.c, s.found)
                IN  IF Raises(c2) THEN [c |-> Called(c2), failed |-> TRUE]
                    ELSE LET c3 == Called(c2)
                             j == ScanExpired(c3, c3.jobs, Restrict(jorder, DOMAIN c3.jobs), <<>>, t)
                         IN  IF j.exc THEN [c |-> j.c, failed |-> TRUE]
                             ELSE LET d == DeleteJobs(j.c, j.found)
                                  IN  [c |-> d.c, failed |-> d.exc]

\* returns len(active_searches), or 0 from the exception handler
clear_all_cache(c, sorder) ==
  IF Raises(c) THEN [c |-> Called(c), failed |-> TRUE, ret |-> 0]
  ELSE LET c1 == Called(c)
           count == Cardinality(c1.active)
           c2 == ClearSearches(c1, Restrict(sorder, c1.active))
       IN  IF Raises(c2) THEN [c |-> Called(c2), failed |-> TRUE, ret |-> 0]
           ELSE LET c3 == Called(c2)
                    anyJobs == DOMAIN c3.jobs # {}
                IN  IF anyJobs /\ Raises(c3) THEN [c |-> Called(c3), failed |-> TRUE, ret |-> 0]
                    ELSE LET c4 == IF anyJobs
                                   THEN Logged([Called(c3) EXCEPT !.jobs = Del(@, DOMAIN @)], "del", "job", <<"*">>)
                                   ELSE c3
                         IN  IF Raises(c4) THEN [c |-> Called(c4), failed |-> TRUE, ret |-> 0]
                             ELSE LET c5 == Called(c4)
                                      anySearch == DOMAIN c5.search # {}
                                  IN  IF anySearch /\ Raises(c5)
                                      THEN [c |-> Called(c5), failed |-> TRUE, ret |-> 0]
                                      ELSE LET c6 == IF anySearch
                                                     THEN Logged([Called(c5) EXCEPT !.search = Del(@, DOMAIN @)],
                                                                 "del", "search", <<"*">>)
                                                     ELSE c5
                                           IN  IF Raises(c6)
                                               THEN [c |-> Called(c6), failed |-> TRUE, ret |-> 0]
                                               ELSE [c |-> Logged([Called(c6) EXCEPT !.active = {}],
                                                                  "del", "active", <<"*">>),
                                                     failed |-> FALSE, ret |-> count]

----------------------------------------------------------------------------
(* CacheKeyBuilder, the same in both backends *)

US == <<"_">>

\* the f-string of line 66
search_params(q) ==
  q.keywords \o US \o q.location \o US \o IntStr(q.max_jobs) \o US
      \o OptStr(q.job_type_filter) \o US \o OptStr(q.category_filter) \o US
      \o BoolStr(q.trusted_only)

generate_cache_key(q) == Md5(search_params(q))

\* JobDataCache.generate_cache_key (src/cache.py:30): the same f-string, the
\* same digest
fs_search_params(q) ==
  q.keywords \o US \o q.location \o US \o IntStr(q.max_jobs) \o US
      \o OptStr(q.job_type_filter) \o US \o OptStr(q.category_filter) \o US
      \o BoolStr(q.trusted_only)

fs_generate_cache_key(q) == Md5(fs_search_params(q))

----------------------------------------------------------------------------
(* RedisJobDataCache: search by criteria and statistics.  Both scan the    *)
(* keys job-scraping:* in the order KEYS returns them.                      *)

\* a keyword test that compares the cases as they are
KeywordPassesExact(keyword, text) ==
  keyword = <<>> \/ keyword[1] = <<>> \/ Contains(keyword[1], text)

\* `keyword and keyword.lower() not in text.lower()` is false: the keyword is
\* None or empty, or the text contains it, case aside
KeywordPasses(keyword, text) ==
  keyword = <<>> \/ keyword[1] = <<>> \/ Contains(Lower(keyword[1]), Lower(text))

\* lines 392-405: the five filters on a stored field-map
Passes(job_data, crit) ==
  /\ KeywordPasses(crit.title_keyword, Get(job_data, "title", <<>>))
  /\ KeywordPasses(crit.company_keyword, Get(job_data, "company", <<>>))
  /\ KeywordPasses(crit.location_keyword, Get(job_data, "location", <<>>))
  /\ ~(crit.remote_only /\ Get(job_data, "remote", "No") = "No")
  /\ ~(crit.trusted_only /\ Get(job_data, "is_trusted_company", BoolStr(FALSE)) # BoolStr(TRUE))

\* a read that serves a record only when an index entry names it
ReadJobIndexed(c, job_key) ==
  IF \E k \in DOMAIN c.search :
        \E i \in 1..Len(JsonLoads(c.search[k].h.job_ids).v) :
           JsonLoads(c.search[k].h.job_ids).v[i] = job_key
  THEN HGetAll(c.jobs, job_key)
  ELSE EmptyMap

\* lines 388 and 438: HGETALL job_key
ReadJob(c, job_key) == HGetAll(c.jobs, job_key)

\* a scan that stops one match short of limit
LimitReachedEarly(matching_jobs, limit) == Len(matching_jobs) + 1 >= limit

\* lines 384-385: if len(matching_jobs) >= limit: break
LimitReached(matching_jobs, limit) == Len(matching_jobs) >= limit

RECURSIVE ScanMatching(_, _, _, _)
\* lines 383-409: the loop over job_keys
ScanMatching(c, job_keys, crit, matching_jobs) ==
  IF job_keys = <<>> \/ LimitReached(matching_jobs, crit.limit)
  THEN [c |-> c, exc |-> FALSE, ret |-> matching_jobs]
  ELSE IF Raises(c) THEN [c |-> Called(c), exc |-> TRUE, ret |-> <<>>]
  ELSE LET job_data == ReadJob(c, Head(job_keys))
       IN  ScanMatching(Called(c), Tail(job_keys), crit,
                        IF ~IsEmpty(job_data) /\ Passes(job_data, crit)
                        THEN Append(matching_jobs, _process_redis_job_data(job_data))
                        ELSE matching_jobs)

\* search_jobs_by_criteria: job_keys is what KEYS returned; [] on an exception
search_jobs_by_criteria(c, crit, job_keys) ==
  IF Raises(c) THEN [c |-> Called(c), exc |-> TRUE, ret |-> <<>>]
  ELSE ScanMatching(Called(c), job_keys, crit, <<>>)

\* d[value] = d.get(value, 0) + 1 on a dict kept in insertion order
Counted(d, value) ==
  IF \E i \in 1..Len(d) : d[i].k = value
  THEN [i \in 1..Len(d) |-> IF d[i].k = value THEN [k |-> value, n |-> d[i].n + 1] ELSE d[i]]
  ELSE Append(d, [k |-> value, n |-> 1])

RECURSIVE SortedDesc(_)
\* sorted(items, key=count, reverse=True): stable, equal counts keep their order
SortedDesc(d) ==
  IF d = <<>> THEN <<>>
  ELSE LET top == CHOOSE i \in 1..Len(d) :
                    /\ \A j \in 1..Len(d) : d[j].n <= d[i].n
                    /\ \A j \in 1..(i - 1) : d[j].n < d[i].n
           rest == [j \in 1..(Len(d) - 1) |-> IF j < top THEN d[j] ELSE d[j + 1]]
       IN  <<d[top]>> \o SortedDesc(rest)

\* a sort that leaves the groupings in insertion order
Unsorted(d) == d

\* lines 480-481: the sort applied to each grouping
SortGrouping(d) == SortedDesc(d)

\* lines 426-435
EmptyStats ==
  [total_jobs |-> 0, by_company |-> <<>>, by_location |-> <<>>, by_job_type |-> <<>>,
   by_category |-> <<>>, by_experience_level |-> <<>>,
   remote_stats |-> [Yes |-> 0, No |-> 0, Hybrid |-> 0], trusted_companies |-> 0]

Unknown == <<"U","n","k","n","o","w","n">>

\* lines 443-475: one stored field-map added to the statistics
Tallied(stats, job_data) ==
  LET remote == Get(job_data, "remote", "No")
  IN  [total_jobs |-> stats.total_jobs + 1,
       by_company |-> Counted(stats.by_company, Get(job_data, "company", Unknown)),
       by_location |-> Counted(stats.by_location, Get(job_data, "location", Unknown)),
       by_job_type |-> Counted(stats.by_job_type, Get(job_data, "job_type", "Unknown")),
       by_category |-> Counted(stats.by_category, Get(job_data, "category", "Unknown")),
       by_experience_level |->
          Counted(stats.by_experience_level, Get(job_data, "experience_level", "Unknown")),
       remote_stats |-> IF remote \in DOMAIN stats.remote_stats
                        THEN [stats.remote_stats EXCEPT ![remote] = @ + 1]
                        ELSE stats.remote_stats,
       trusted_companies |-> IF Get(job_data, "is_trusted_company", BoolStr(FALSE)) = BoolStr(TRUE)
                             THEN stats.trusted_companies + 1
                             ELSE stats.trusted_companies]

RECURSIVE ScanStats(_, _, _)
\* lines 437-475: the loop over job_keys
ScanStats(c, job_keys, stats) ==
  IF job_keys = <<>> THEN [c |-> c, exc |-> FALSE, ret |-> stats]
  ELSE IF Raises(c) THEN [c |-> Called(c), exc |-> TRUE, ret |-> stats]
  ELSE LET job_data == ReadJob(c, Head(job_keys))
       IN  ScanStats(Called(c), Tail(job_keys),
                     IF IsEmpty(job_data) THEN stats ELSE Tallied(stats, job_data))

\* get_job_statistics: {'total_jobs': 0} without keys, {'error': ...} on an
\* exception
get_job_statistics(c, job_keys) ==
  IF Raises(c) THEN [c |-> Called(c), exc |-> TRUE, ret |-> [error |-> TRUE]]
  ELSE IF job_keys = <<>> THEN [c |-> Called(c), exc |-> FALSE, ret |-> [total_jobs |-> 0]]
  ELSE LET r == ScanStats(Called(c), job_keys, EmptyStats)
       IN  IF r.exc THEN [c |-> r.c, exc |-> TRUE, ret |-> [error |-> TRUE]]
           ELSE [c |-> r.c, exc |-> FALSE,
                 ret |-> [r.ret EXCEPT !.by_company = SortGrouping(@),
                                       !.by_location = SortGrouping(@),
                                       !.by_job_type = SortGrouping(@),
                                       !.by_category = SortGrouping(@),
                                       !.by_experience_level = SortGrouping(@)]]

----------------------------------------------------------------------------
(* JobDataCache: one JSON file per cache key.  A file is [mtime, text]; the *)
(* text is [json |-> value] as json.dump writes it, or [torn |-> TRUE] when *)
(* the dump raised after open(path, 'w') had truncated the file.  A handler *)
(* runs on [files, n, f]: n file operations issued, the f-th one raises.    *)

FCtx(fl, f) == [files |-> fl, n |-> 0, f |-> f]

\* a validity check that refuses a file whose age equals the cache duration
is_cache_valid_strict(fl, cache_key, t) ==
  cache_key \in DOMAIN fl /\ t - fl[cache_key].mtime < CacheDuration

is_cache_valid(fl, cache_key, t) ==
  cache_key \in DOMAIN fl /\ t - fl[cache_key].mtime <= CacheDuration

fs_save_to_cache(c, cache_key, data, metadata, t) ==
  LET cache_data == [timestamp |-> IsoFormat(t), cache_key |-> cache_key,
                     metadata |-> metadata, job_count |-> Len(data), data |-> data]
  IN  IF Raises(c) THEN [c |-> Called(c), ok |-> FALSE]
      ELSE LET c1 == [Called(c) EXCEPT
                        !.files = Put(@, cache_key, [mtime |-> t, text |-> [torn |-> TRUE]])]
           IN  IF Raises(c1) THEN [c |-> Called(c1), ok |-> FALSE]
               ELSE [c |-> [Called(c1) EXCEPT
                              !.files = Put(@, cache_key, [mtime |-> t, text |-> [json |-> cache_data]])],
                     ok |-> TRUE]

fs_load_from_cache(c, cache_key, t) ==
  IF ~is_cache_valid(c.files, cache_key, t) THEN [c |-> c, res |-> PyNone]
  ELSE IF Raises(c) \/ "json" \notin DOMAIN c.files[cache_key].text
  THEN [c |-> Called(c), res |-> PyNone]
  ELSE [c |-> Called(c), res |-> Merge([hit |-> TRUE], c.files[cache_key].text.json)]

RECURSIVE RemoveFiles(_, _)
\* os.remove per file; an exception is logged and the loop goes on
RemoveFiles(c, keys) ==
  IF keys = <<>> THEN [c |-> c, failed |-> FALSE]
  ELSE LET r == RemoveFiles(IF Raises(c) THEN Called(c)
                            ELSE [Called(c) EXCEPT !.files = Drop(@, {Head(keys)})],
                            Tail(keys))
       IN  [c |-> r.c, failed |-> r.failed \/ Raises(c)]

IsOldEarly(fl, k, t) == t - fl[k].mtime >= CacheDuration

\* if current_time - file_mtime > self.cache_duration
IsOld(fl, k, t) == t - fl[k].mtime > CacheDuration

\* forder: the order in which os.listdir lists the files
fs_clear_expired_cache(c, t, forder) ==
  LET Old(k) == IsOld(c.files, k, t)
  IN  RemoveFiles(c, SelectSeq(forder, Old))

fs_clear_all_cache(c, forder) == RemoveFiles(c, forder)

----------------------------------------------------------------------------
(* Inputs *)

Dev == <<"D","e","v">>
Acme == <<"A","c","m","e">>
Beta == <<"B","e","t","a">>
NYC == <<"N","Y","C">>

\* a record as extract_job_details builds it (src/scraper.py:194)
Scraped(title, company, location, salary, trusted) ==
  [title |-> title, company |-> company, location |-> location, description |-> <<>>,
   requirements |-> <<>>, job_type |-> "Full-time", skills |-> << <<"G","o">>, <<"S","Q","L">> >>,
   posted_date |-> "2024-01-01", job_url |-> "/jobs/1", salary |-> salary, category |-> "Other",
   is_trusted_company |-> trusted, experience_level |-> "Senior", employment_type |-> ""]

JobA == Scraped(Dev, Acme, NYC, "", TRUE)
\* a record that brings its own job_id and remote_work (src/app.py:419)
JobM == Merge(Scraped(Dev, Beta, NYC, "85k", FALSE),
              [job_id |-> <<"m","1">>, remote_work |-> "Hybrid"])

\* the posting of JobA scraped again, its salary now shown
JobA2 == Scraped(Dev, Acme, NYC, "90k", TRUE)

\* a record that has neither title nor company
JobBlank == Drop(JobA, {"title", "company"})

\* the lists handed to save_to_cache when postings are scraped again
PutLists == {<<JobA>>, <<JobA2>>, <<JobA, JobA2>>, <<JobA2, JobM>>, <<JobBlank, JobM>>}

Query(trusted_only) ==
  [keywords |-> <<"d","e","v">>, location |-> <<"u","s">>, max_jobs |-> 2,
   job_type_filter |-> <<>>, category_filter |-> <<>>, trusted_only |-> trusted_only]

Queries == {Query(TRUE), Query(FALSE)}

CacheKeys == {generate_cache_key(q) : q \in Queries}

\* the lists handed to save_to_cache
JobLists == {<<>>, <<JobA>>, <<JobA, JobM>>}

\* what scrape_jobs can return for q: at most max_jobs records, trusted ones
\* only under trusted_only (src/scraper.py:563, 587)
ScrapeResults(q) ==
  {l \in JobLists :
     /\ Len(l) <= q.max_jobs
     /\ q.trusted_only => \A i \in 1..Len(l) : l[i].is_trusted_company}

\* the metadata get_jobs attaches (src/cached_scraper.py:91)
Metadata(q, t) == Merge(q, [scraped_at |-> IsoFormat(t)])

\* the clock slips that are explored
Slips == {0, 2}

\* the canonical enumeration of a set of keys
Listing(S) == CHOOSE s \in Orders(S) : TRUE

\* an order is only observable when a store call fails part-way
OrdersFor(S, f) == IF f = 0 THEN {Listing(S)} ELSE Orders(S)

----------------------------------------------------------------------------
(* The operations *)

\* a reading that takes a hit without records for a miss
TruthyNonEmpty(res) == res.hit /\ res.data # <<>>

\* a get_jobs that never skips the cache read
BypassNever(force_refresh) == FALSE

\* `if not force_refresh:` the cache read is skipped under force_refresh
Bypass(force_refresh) == force_refresh

\* `if cached_data:` on what load_from_cache returned
Truthy(res) == res.hit

\* jobs_data after save_to_cache: every dict got its job_id
WithIds(l) == [i \in 1..Len(l) |-> WithJobId(l[i])]

NoPrior == [some |-> FALSE]

NoOp ==
  [op |-> "init", key |-> <<>>, arg |-> <<>>, force |-> FALSE, fault |-> FALSE, at |-> 0,
   ret |-> <<>>, ok |-> TRUE, failed |-> FALSE, read |-> FALSE, loaded |-> PyNone,
   scrapes |-> 0, puts |-> 0, saved |-> <<>>, log |-> <<>>, put |-> -1, found |-> EmptyMap,
   before |-> [search |-> {}, jobs |-> {}, active |-> {}, files |-> {}], prior |-> NoPrior,
   held |-> EmptyMap, readfault |-> FALSE, scraperfail |-> FALSE, raised |-> FALSE,
   fetchfail |-> FALSE]

\* the keys in the store and the files in the cache directory
Before == [search |-> DOMAIN search, jobs |-> DOMAIN jobs, active |-> active, files |-> DOMAIN files]

\* the store call number c.f was issued, so it raised
Faulted(c) == c.f # 0 /\ c.n >= c.f

\* putAt after an operation that left the index entries (or files) post:
\* wrote is the key a put was attempted on, created its entry's creation time
PutAtAfter(wrote, ok, created, pre, post) ==
  [k \in CacheKeys |->
     IF k \in wrote THEN (IF ok THEN created ELSE -1)
     ELSE IF k \in DOMAIN pre /\ k \notin DOMAIN post THEN -1
     ELSE putAt[k]]

\* the callers that may run get_jobs at the same time
Procs == {"a", "b"}

\* a caller outside get_jobs
Idle == [pc |-> "idle"]

\* no function applied yet
NoCall == [op |-> "none"]

\* an empty store and an empty cache directory, no caller at work
Cold ==
  /\ backend \in {"redis", "fs"}
  /\ now = 0
  /\ jobs = EmptyMap
  /\ search = EmptyMap
  /\ active = {}
  /\ files = EmptyMap
  /\ putAt = [k \in CacheKeys |-> -1]
  /\ last = NoOp
  /\ procs = [p \in Procs |-> Idle]

Init == Cold /\ applied = NoCall

\* time passes; the store drops the keys whose deadline is behind
Tick ==
  /\ now < MaxTime
  /\ now' = now + 1
  /\ jobs' = Drop(jobs, Expired(jobs, now + 1))
  /\ search' = Drop(search, Expired(search, now + 1))
  /\ last' = [NoOp EXCEPT !.op = "tick"]
  /\ UNCHANGED <<backend, active, files, putAt, procs, applied>>

\* RedisJobDataCache.load_from_cache(cache_key)
LoadFromCache(cache_key, f) ==
  /\ backend = "redis"
  /\ \E r \in {load_from_cache(Ctx(jobs, search, active, f), cache_key, now)} :
         /\ f <= r.c.n
         /\ jobs' = r.c.jobs
         /\ search' = r.c.search
         /\ active' = r.c.active
         /\ putAt' = PutAtAfter({}, TRUE, now, search, r.c.search)
         /\ last' = [NoOp EXCEPT !.op = "load_from_cache", !.key = cache_key,
                                 !.fault = Faulted(r.c), !.at = now, !.read = TRUE,
                                 !.loaded = r.res, !.ret = r.res, !.log = r.c.log,
                                 !.put = putAt[cache_key],
                                 !.found = HGetAll(search, cache_key),
                                 !.prior = IF last.puts = 1
                                           THEN [some |-> TRUE, key |-> last.key, arg |-> last.arg,
                                                 ok |-> last.ok, fault |-> last.fault, at |-> last.at]
                                           ELSE NoPrior]
  /\ UNCHANGED <<backend, now, files, procs, applied>>

\* what a call of scrape_jobs ends in: the list it returns, or an exception
Returned(jobs_data) == [raised |-> FALSE, jobs |-> jobs_data]
ScraperError == [raised |-> TRUE, jobs |-> <<>>]

\* a get_jobs that takes a failed scrape for one that found nothing
PropagatesNever(scrape) == FALSE

\* no handler surrounds the call of scrape_jobs: what it raises leaves get_jobs
Propagates(scrape) == scrape.raised

\* RedisCachedJobScraper.get_jobs (src/cached_scraper.py:46); scrape: what
\* scrape_jobs ends in when it is called
get_jobs(c0, q, force_refresh, scrape, t, slip) ==
  LET cache_key == generate_cache_key(q)
      scraped == scrape.jobs
      Saved(r, s) ==
        IF ~Bypass(force_refresh) /\ Truthy(r.res)
        THEN [c |-> r.c, key |-> cache_key, hit |-> TRUE, read |-> TRUE, loaded |-> r.res,
              scrapes |-> 0, readfault |-> Faulted(r.c),
              puts |-> 0, ok |-> TRUE, saved |-> <<>>, t |-> t, created |-> t,
              ret |-> r.res.data, raised |-> FALSE]
        ELSE IF Propagates(scrape)
        THEN [c |-> r.c, key |-> cache_key, hit |-> FALSE, read |-> ~Bypass(force_refresh),
              loaded |-> r.res, scrapes |-> 1, readfault |-> Faulted(r.c),
              puts |-> 0, ok |-> TRUE, saved |-> <<>>, t |-> t, created |-> t,
              ret |-> <<>>, raised |-> TRUE]
        ELSE [c |-> s.c, key |-> cache_key, hit |-> FALSE, read |-> ~Bypass(force_refresh),
              loaded |-> r.res, scrapes |-> 1, readfault |-> Faulted(r.c),
              puts |-> 1, ok |-> s.ok, saved |-> s.saved, t |-> s.t, created |-> s.created,
              ret |-> WithIds(scraped), raised |-> FALSE]
      Loaded(r) == Saved(r, save_to_cache(r.c, cache_key, scraped, Metadata(q, t), t, slip))
  IN  Loaded(IF Bypass(force_refresh) THEN [c |-> c0, res |-> PyNone]
             ELSE load_from_cache(c0, cache_key, t))

GetJobs(q, force_refresh, scraped, slip, f) ==
  /\ backend = "redis"
  /\ slip # 0 => now < MaxTime
  /\ scraped \in ScrapeResults(q)
  /\ \E g \in {get_jobs(Ctx(jobs, search, active, f), q, force_refresh, Returned(scraped), now,
                         slip)} :
         /\ g.hit => (scraped = <<>> /\ slip = 0)
         /\ f <= g.c.n
         /\ now' = g.t
         /\ jobs' = g.c.jobs
         /\ search' = g.c.search
         /\ active' = g.c.active
         /\ putAt' = PutAtAfter(IF g.hit THEN {} ELSE {g.key}, g.ok, g.created, search, g.c.search)
         /\ last' = [NoOp EXCEPT !.op = "get_jobs", !.key = g.key, !.force = force_refresh,
                                 !.fault = Faulted(g.c), !.at = now,
                                 !.readfault = g.readfault,
                                 !.read = g.read, !.loaded = g.loaded,
                                 !.scrapes = g.scrapes, !.puts = g.puts, !.arg = scraped,
                                 !.ok = g.ok, !.saved = g.saved, !.ret = g.ret,
                                 !.log = g.c.log,
                                 !.put = putAt[g.key],
                                 !.found = IF g.read THEN HGetAll(search, g.key) ELSE EmptyMap]
  /\ UNCHANGED <<backend, files, procs, applied>>

\* RedisCachedJobScraper.get_jobs when scrape_jobs raises
GetJobsScraperError(q, force_refresh, f) ==
  /\ backend = "redis"
  /\ \E g \in {get_jobs(Ctx(jobs, search, active, f), q, force_refresh, ScraperError, now, 0)} :
         /\ ~g.hit
         /\ f <= g.c.n
         /\ jobs' = g.c.jobs
         /\ search' = g.c.search
         /\ active' = g.c.active
         /\ putAt' = PutAtAfter(IF g.puts = 0 THEN {} ELSE {g.key}, g.ok, g.created,
                                search, g.c.search)
         /\ last' = [NoOp EXCEPT !.op = "get_jobs", !.key = g.key, !.force = force_refresh,
                                 !.fault = Faulted(g.c), !.at = now,
                                 !.readfault = g.readfault,
                                 !.read = g.read, !.loaded = g.loaded,
                                 !.scrapes = g.scrapes, !.puts = g.puts,
                                 !.ok = g.ok, !.saved = g.saved, !.ret = g.ret,
                                 !.log = g.c.log,
                                 !.put = putAt[g.key],
                                 !.found = IF g.read THEN HGetAll(search, g.key) ELSE EmptyMap,
                                 !.scraperfail = TRUE, !.raised = g.raised]
  /\ UNCHANGED <<backend, now, files, procs, applied>>

\* RedisCachedJobScraper.clear_cache(expired_only=True)
ClearExpired(f, sorder, jorder) ==
  /\ backend = "redis"
  /\ \E r \in {clear_expired_cache(Ctx(jobs, search, active, f), now, sorder, jorder)} :
         /\ f <= r.c.n
         /\ jobs' = r.c.jobs
         /\ search' = r.c.search
         /\ active' = r.c.active
         /\ putAt' = PutAtAfter({}, TRUE, now, search, r.c.search)
         /\ last' = [NoOp EXCEPT !.op = "clear_expired", !.fault = Faulted(r.c), !.at = now,
                                 !.failed = r.failed, !.ret = 0, !.log = r.c.log]
  /\ UNCHANGED <<backend, now, files, procs, applied>>

\* RedisCachedJobScraper.clear_cache(expired_only=False)
ClearAll(f, sorder) ==
  /\ backend = "redis"
  /\ \E r \in {clear_all_cache(Ctx(jobs, search, active, f), sorder)} :
         /\ f <= r.c.n
         /\ jobs' = r.c.jobs
         /\ search' = r.c.search
         /\ active' = r.c.active
         /\ putAt' = PutAtAfter({}, TRUE, now, search, r.c.search)
         /\ last' = [NoOp EXCEPT !.op = "clear_all", !.fault = Faulted(r.c), !.at = now,
                                 !.failed = r.failed, !.ret = r.ret, !.log = r.c.log,
                                 !.before = Before]
  /\ UNCHANGED <<backend, now, files, procs, applied>>

\* JobDataCache.load_from_cache(cache_key)
FsLoadFromCache(cache_key, f) ==
  /\ backend = "fs"
  /\ \E r \in {fs_load_from_cache(FCtx(files, f), cache_key, now)} :
         /\ f <= r.c.n
         /\ files' = r.c.files
         /\ putAt' = PutAtAfter({}, TRUE, now, files, r.c.files)
         /\ last' = [NoOp EXCEPT !.op = "load_from_cache", !.key = cache_key,
                                 !.fault = Faulted(r.c), !.at = now, !.read = TRUE,
                                 !.loaded = r.res, !.ret = r.res, !.put = putAt[cache_key]]
  /\ UNCHANGED <<backend, now, jobs, search, active, procs, applied>>

\* CachedJobScraper.get_jobs (src/cache.py:219)
fs_get_jobs(c0, q, force_refresh, scrape, t) ==
  LET cache_key == fs_generate_cache_key(q)
      scraped == scrape.jobs
      r == IF Bypass(force_refresh) THEN [c |-> c0, res |-> PyNone]
           ELSE fs_load_from_cache(c0, cache_key, t)
      hit == ~Bypass(force_refresh) /\ Truthy(r.res)
      s == fs_save_to_cache(r.c, cache_key, scraped, Metadata(q, t), t)
  IN  IF hit
      THEN [c |-> r.c, key |-> cache_key, hit |-> TRUE, read |-> TRUE, loaded |-> r.res,
            scrapes |-> 0, readfault |-> Faulted(r.c),
            puts |-> 0, ok |-> TRUE, ret |-> r.res.data, raised |-> FALSE]
      ELSE IF Propagates(scrape)
      THEN [c |-> r.c, key |-> cache_key, hit |-> FALSE, read |-> ~Bypass(force_refresh),
            loaded |-> r.res, scrapes |-> 1, readfault |-> Faulted(r.c),
            puts |-> 0, ok |-> TRUE, ret |-> <<>>, raised |-> TRUE]
      ELSE [c |-> s.c, key |-> cache_key, hit |-> FALSE, read |-> ~Bypass(force_refresh),
            loaded |-> r.res, scrapes |-> 1, readfault |-> Faulted(r.c),
            puts |-> 1, ok |-> s.ok, ret |-> scraped, raised |-> FALSE]

FsGetJobs(q, force_refresh, scraped, f) ==
  /\ backend = "fs"
  /\ scraped \in ScrapeResults(q)
  /\ \E g \in {fs_get_jobs(FCtx(files, f), q, force_refresh, Returned(scraped), now)} :
         /\ g.hit => scraped = <<>>
         /\ f <= g.c.n
         /\ files' = g.c.files
         /\ putAt' = PutAtAfter(IF g.hit THEN {} ELSE {g.key}, g.ok, now, files, g.c.files)
         /\ last' = [NoOp EXCEPT !.op = "get_jobs", !.key = g.key, !.force = force_refresh,
                                 !.fault = Faulted(g.c), !.at = now,
                                 !.readfault = g.readfault,
                                 !.read = g.read, !.loaded = g.loaded,
                                 !.scrapes = g.scrapes, !.puts = g.puts, !.arg = scraped,
                                 !.ok = g.ok, !.ret = g.ret,
                                 !.put = putAt[g.key]]
  /\ UNCHANGED <<backend, now, jobs, search, active, procs, applied>>

\* CachedJobScraper.get_jobs when scrape_jobs raises
FsGetJobsScraperError(q, force_refresh, f) ==
  /\ backend = "fs"
  /\ \E g \in {fs_get_jobs(FCtx(files, f), q, force_refresh, ScraperError, now)} :
         /\ ~g.hit
         /\ f <= g.c.n
         /\ files' = g.c.files
         /\ putAt' = PutAtAfter(IF g.puts = 0 THEN {} ELSE {g.key}, g.ok, now, files, g.c.files)
         /\ last' = [NoOp EXCEPT !.op = "get_jobs", !.key = g.key, !.force = force_refresh,
                                 !.fault = Faulted(g.c), !.at = now,
                                 !.readfault = g.readfault,
                                 !.read = g.read, !.loaded = g.loaded,
                                 !.scrapes = g.scrapes, !.puts = g.puts,
                                 !.ok = g.ok, !.ret = g.ret,
                                 !.put = putAt[g.key],
                                 !.scraperfail = TRUE, !.raised = g.raised]
  /\ UNCHANGED <<backend, now, jobs, search, active, procs, applied>>

\* CachedJobScraper.clear_cache(expired_only=True)
FsClearExpired(f, forder) ==
  /\ backend = "fs"
  /\ \E r \in {fs_clear_expired_cache(FCtx(files, f), now, forder)} :
         /\ f <= r.c.n
         /\ files' = r.c.files
         /\ putAt' = PutAtAfter({}, TRUE, now, files, r.c.files)
         /\ last' = [NoOp EXCEPT !.op = "clear_expired", !.fault = Faulted(r.c), !.at = now,
                                 !.failed = r.failed, !.before = Before]
  /\ UNCHANGED <<backend, now, jobs, search, active, procs, applied>>

\* CachedJobScraper.clear_cache(expired_only=False)
FsClearAll(f, forder) ==
  /\ backend = "fs"
  /\ \E r \in {fs_clear_all_cache(FCtx(files, f), forder)} :
         /\ f <= r.c.n
         /\ files' = r.c.files
         /\ putAt' = PutAtAfter({}, TRUE, now, files, r.c.files)
         /\ last' = [NoOp EXCEPT !.op = "clear_all", !.fault = Faulted(r.c), !.at = now,
                                 !.failed = r.failed, !.before = Before]
  /\ UNCHANGED <<backend, now, jobs, search, active, procs, applied>>

\* every store call and file operation succeeds
Next ==
  \/ Tick
  \/ \E k \in CacheKeys : LoadFromCache(k, 0)
  \/ \E q \in Queries, force \in BOOLEAN, l \in JobLists, slip \in Slips :
        GetJobs(q, force, l, slip, 0)
  \/ \E q \in Queries, force \in BOOLEAN : GetJobsScraperError(q, force, 0)
  \/ ClearExpired(0, Listing(active), Listing(DOMAIN jobs))
  \/ ClearAll(0, Listing(active))
  \/ \E k \in CacheKeys : FsLoadFromCache(k, 0)
  \/ \E q \in Queries, force \in BOOLEAN, l \in JobLists : FsGetJobs(q, force, l, 0)
  \/ \E q \in Queries, force \in BOOLEAN : FsGetJobsScraperError(q, force, 0)
  \/ FsClearExpired(0, Listing(DOMAIN files))
  \/ FsClearAll(0, Listing(DOMAIN files))

Spec == Init /\ [][Next]_vars

\* the store calls that may be the failing one
Faults == 0..MaxFault

\* at most one store call or file operation of each handler fails; the clock
\* stands still
NextF ==
  \/ \E q \in Queries, force \in BOOLEAN, l \in JobLists, f \in Faults :
        GetJobs(q, force, l, 0, f)
  \/ \E f \in Faults : \E so \in OrdersFor(active, f) : ClearAll(f, so)
  \/ \E q \in Queries, force \in BOOLEAN, l \in JobLists, f \in Faults : FsGetJobs(q, force, l, f)
  \/ \E f \in Faults : \E fo \in OrdersFor(DOMAIN files, f) : FsClearAll(f, fo)

SpecF == Init /\ [][NextF]_vars

\* text that neither json.loads nor datetime.fromisoformat accepts
Garbage == [raw |-> "x"]

\* the index entry of cache_key as save_to_cache wrote it at time 0 and as
\* another writer to the shared store may have left it: a field removed or
\* overwritten
Entries(cache_key) ==
  LET e == search_metadata(cache_key, <<JobId(JobA)>>, EmptyMap, 0)
  IN  {e,
       Drop(e, {"expires_at"}), Put(e, "expires_at", Garbage),
       Drop(e, {"job_ids"}), Put(e, "job_ids", <<Garbage>>),
       Drop(e, {"expires_at", "job_ids"})}

\* the Redis store holds the record of JobA and, per key, no index entry or
\* one of Entries; any set of keys is registered
InitT ==
  /\ backend = "redis"
  /\ now = 0
  /\ jobs = Expire(HSet(EmptyMap, JobId(JobA), redis_fields(JobA, 0)), JobId(JobA), 0, CacheDuration)
  /\ \E S \in SUBSET CacheKeys :
        \E es \in [S -> UNION {Entries(k) : k \in S}] :
           /\ \A k \in S : es[k] \in Entries(k)
           /\ search = [k \in S |-> [h |-> es[k], ttl |-> CacheDuration]]
  /\ active \in SUBSET CacheKeys
  /\ files = EmptyMap
  /\ putAt = [k \in CacheKeys |-> -1]
  /\ last = NoOp
  /\ procs = [p \in Procs |-> Idle]
  /\ applied = NoCall

\* reads only, as the clock advances
NextT ==
  \/ Tick
  \/ \E k \in CacheKeys : LoadFromCache(k, 0)

SpecT == InitT /\ [][NextT]_vars

----------------------------------------------------------------------------
(* generate_cache_key as a function: two argument tuples are drawn and the  *)
(* function of the backend is applied to both.                              *)

\* the strings a caller may pass as keywords and as location
KeywordArgs == {<<"a">>, <<"a","_","b">>}
LocationArgs == {<<"c">>, <<"b","_","c">>}

\* the filters a caller may pass: None, or a string
FilterArgs == {<<>>, << <<"N","o","n","e">> >>, << <<"x">> >>}

KeyArgs ==
  [keywords : KeywordArgs, location : LocationArgs, max_jobs : {2, 12},
   job_type_filter : FilterArgs, category_filter : {<<>>, << <<"x">> >>},
   trusted_only : BOOLEAN]

InitK ==
  /\ Cold
  /\ \E a \in KeyArgs, b \in KeyArgs : applied = [op |-> "args", a |-> a, b |-> b]

\* both tuples go through generate_cache_key of the backend in use
GenerateCacheKey ==
  /\ applied.op = "args"
  /\ applied' =
       IF backend = "redis"
       THEN [op |-> "generate_cache_key", a |-> applied.a, b |-> applied.b,
             sa |-> search_params(applied.a), sb |-> search_params(applied.b),
             ka |-> generate_cache_key(applied.a), kb |-> generate_cache_key(applied.b),
             other |-> fs_generate_cache_key(applied.a)]
       ELSE [op |-> "generate_cache_key", a |-> applied.a, b |-> applied.b,
             sa |-> fs_search_params(applied.a), sb |-> fs_search_params(applied.b),
             ka |-> fs_generate_cache_key(applied.a), kb |-> fs_generate_cache_key(applied.b),
             other |-> generate_cache_key(applied.a)]
  /\ UNCHANGED <<backend, now, jobs, search, active, files, putAt, last, procs>>

NextK == GenerateCacheKey

SpecK == InitK /\ [][NextK]_vars

----------------------------------------------------------------------------
(* Concurrent callers of RedisCachedJobScraper.get_jobs on one store: each  *)
(* store call is a step of its own, every call succeeds, the clock stands   *)
(* still.                                                                   *)

\* caller p enters get_jobs(q, force_refresh)
Entered(q, force_refresh) ==
  [pc |-> IF Bypass(force_refresh) THEN "scrape" ELSE "hgetall",
   q |-> q, key |-> generate_cache_key(q), force |-> force_refresh,
   missed |-> FALSE, ids |-> <<>>, data |-> <<>>, scraped |-> <<>>, scrapes |-> 0,
   i |-> 0, saved |-> <<>>, puts |-> 0, stamp |-> 0, ret |-> <<>>]

\* the number of index writes issued so far, plus one
NextStamp == 1 + Cardinality({p \in Procs : procs[p].pc # "idle" /\ procs[p].stamp > 0})

CBegin(p, q, force_refresh) ==
  /\ backend = "redis"
  /\ procs[p].pc = "idle"
  /\ procs' = [procs EXCEPT ![p] = Entered(q, force_refresh)]
  /\ UNCHANGED <<backend, now, jobs, search, active, files, putAt, last, applied>>

\* load_from_cache, lines 169-181: HGETALL search:<key> and what follows
\* without a further store call
CLoadEntry(p) ==
  /\ procs[p].pc = "hgetall"
  /\ LET me == procs[p]
         search_data == HGetAll(search, me.key)
         expires_at == FromIso(Get(search_data, "expires_at", [raw |-> ""]))
         job_ids == JsonLoads(Get(search_data, "job_ids", JsonDumps(<<>>)))
         miss == [me EXCEPT !.pc = "scrape", !.missed = TRUE]
     IN  IF IsEmpty(search_data) \/ ~expires_at.ok
         THEN procs' = [procs EXCEPT ![p] = miss] /\ UNCHANGED <<jobs, search, active>>
         ELSE IF IsExpired(now, expires_at.v)
         THEN \E c \in {clear_search_cache(Ctx(jobs, search, active, 0), me.key)} :
                 /\ jobs' = c.jobs /\ search' = c.search /\ active' = c.active
                 /\ procs' = [procs EXCEPT ![p] = miss]
         ELSE /\ UNCHANGED <<jobs, search, active>>
              /\ procs' = [procs EXCEPT ![p] =
                    IF ~job_ids.ok THEN miss
                    ELSE IF job_ids.v = <<>> THEN [me EXCEPT !.pc = "done", !.ret = <<>>]
                    ELSE [me EXCEPT !.pc = "resolve", !.ids = job_ids.v]]
  /\ UNCHANGED <<backend, now, files, putAt, last, applied>>

\* load_from_cache, lines 184-189: HGETALL job-scraping:<id> for the next id;
\* after the last one get_jobs returns the records
CLoadJob(p) ==
  /\ procs[p].pc = "resolve"
  /\ LET me == procs[p]
         job_data == HGetAll(jobs, Head(me.ids))
         jobs_data == IF ~IsEmpty(job_data)
                      THEN Append(me.data, _process_redis_job_data(job_data))
                      ELSE me.data
     IN  procs' = [procs EXCEPT ![p] =
           IF Tail(me.ids) = <<>>
           THEN [me EXCEPT !.pc = "done", !.ids = <<>>, !.data = jobs_data, !.ret = jobs_data]
           ELSE [me EXCEPT !.ids = Tail(me.ids), !.data = jobs_data]]
  /\ UNCHANGED <<backend, now, jobs, search, active, files, putAt, last, applied>>

\* get_jobs, line 81: scrape_jobs returns the list l
CScrape(p, l) ==
  /\ procs[p].pc = "scrape"
  /\ l \in ScrapeResults(procs[p].q)
  /\ procs' = [procs EXCEPT ![p] =
        [@ EXCEPT !.pc = IF l = <<>> THEN "hset_search" ELSE "hset_job",
                  !.scraped = l, !.scrapes = @ + 1, !.i = 1]]
  /\ UNCHANGED <<backend, now, jobs, search, active, files, putAt, last, applied>>

\* save_job_to_redis, line 102: HSET of the record in turn
CHsetJob(p) ==
  /\ procs[p].pc = "hset_job"
  /\ LET job_data == procs[p].scraped[procs[p].i]
     IN  jobs' = HSet(jobs, JobId(job_data), redis_fields(job_data, now))
  /\ procs' = [procs EXCEPT ![p].pc = "expire_job"]
  /\ UNCHANGED <<backend, now, search, active, files, putAt, last, applied>>

\* save_job_to_redis, line 105: EXPIRE of the record; save_to_cache, line 138
CExpireJob(p) ==
  /\ procs[p].pc = "expire_job"
  /\ LET me == procs[p]
         job_id == JobId(me.scraped[me.i])
     IN  /\ jobs' = Expire(jobs, job_id, now, CacheDuration)
         /\ procs' = [procs EXCEPT ![p] =
               [me EXCEPT !.saved = Append(@, job_id), !.i = @ + 1,
                          !.pc = IF me.i = Len(me.scraped) THEN "hset_search" ELSE "hset_job"]]
  /\ UNCHANGED <<backend, now, search, active, files, putAt, last, applied>>

\* save_to_cache, lines 141-151: HSET of the index entry
CHsetSearch(p) ==
  /\ procs[p].pc = "hset_search"
  /\ LET me == procs[p]
     IN  /\ search' = HSet(search, me.key,
                           search_metadata(me.key, me.saved, Metadata(me.q, now), now))
         /\ procs' = [procs EXCEPT ![p] = [me EXCEPT !.pc = "expire_search", !.stamp = NextStamp]]
  /\ UNCHANGED <<backend, now, jobs, active, files, putAt, last, applied>>

\* save_to_cache, line 152: EXPIRE of the index entry
CExpireSearch(p) ==
  /\ procs[p].pc = "expire_search"
  /\ search' = Expire(search, procs[p].key, now, CacheDuration)
  /\ procs' = [procs EXCEPT ![p].pc = "sadd"]
  /\ UNCHANGED <<backend, now, jobs, active, files, putAt, last, applied>>

\* save_to_cache, line 155: SADD active_searches; get_jobs returns jobs_data
CSadd(p) ==
  /\ procs[p].pc = "sadd"
  /\ active' = SAdd(active, procs[p].key)
  /\ procs' = [procs EXCEPT ![p] =
        [@ EXCEPT !.pc = "done", !.puts = 1, !.ret = WithIds(procs[p].scraped)]]
  /\ UNCHANGED <<backend, now, jobs, search, files, putAt, last, applied>>

\* a cold cache
InitC == Init /\ backend = "redis"

NextC ==
  \/ \E p \in Procs, q \in Queries, force \in BOOLEAN : CBegin(p, q, force)
  \/ \E p \in Procs : CLoadEntry(p)
  \/ \E p \in Procs : CLoadJob(p)
  \/ \E p \in Procs, l \in JobLists : CScrape(p, l)
  \/ \E p \in Procs : CHsetJob(p)
  \/ \E p \in Procs : CExpireJob(p)
  \/ \E p \in Procs : CHsetSearch(p)
  \/ \E p \in Procs : CExpireSearch(p)
  \/ \E p \in Procs : CSadd(p)

SpecC == InitC /\ [][NextC]_vars

----------------------------------------------------------------------------
(* Puts that follow one another on one store as time passes: every store    *)
(* call succeeds.                                                           *)

\* RedisJobDataCache.save_to_cache(cache_key, jobs_data, metadata)
SaveToCache(q, jobs_data) ==
  /\ backend = "redis"
  /\ \E r \in {save_to_cache(Ctx(jobs, search, active, 0), generate_cache_key(q), jobs_data,
                              Metadata(q, now), now, 0)} :
         /\ jobs' = r.c.jobs
         /\ search' = r.c.search
         /\ active' = r.c.active
         /\ putAt' = PutAtAfter({generate_cache_key(q)}, r.ok, r.created, search, r.c.search)
         /\ last' = [NoOp EXCEPT !.op = "save_to_cache", !.key = generate_cache_key(q),
                                 !.arg = jobs_data, !.at = now, !.ok = r.ok, !.puts = 1,
                                 !.saved = r.saved, !.ret = r.ok, !.log = r.c.log,
                                 !.put = putAt[generate_cache_key(q)], !.held = jobs]
  /\ UNCHANGED <<backend, now, files, procs, applied>>

NextP ==
  \/ Tick
  \/ \E q \in Queries, l \in PutLists : SaveToCache(q, l)

SpecP == InitC /\ [][NextP]_vars

----------------------------------------------------------------------------
(* The codec as a function: a record is drawn, encoded as save_job_to_redis *)
(* encodes it and decoded; a stored field-map is drawn and decoded.         *)

Remote == <<"R","e","m","o","t","e">>

\* a record with or without the remote_work field (src/app.py:419)
RemoteWorkArgs == {<<>>, <<"No">>, <<"Yes">>, <<"Hybrid">>}

\* the records handed to the codec
Records ==
  {Merge(Scraped(Dev, Acme, location, salary, trusted),
         IF remote_work = <<>> THEN [skills |-> skills]
         ELSE [skills |-> skills, remote_work |-> remote_work[1]]) :
     location \in {NYC, Remote}, salary \in {"", "90k"}, trusted \in BOOLEAN,
     skills \in {<<>>, << <<"G","o">>, <<"S","Q","L">> >>},
     remote_work \in RemoteWorkArgs}

\* the fields that another writer, or a partial write, may have left out
Droppable == {"title", "skills", "requirements", "is_trusted_company", "remote", "salary"}

\* the nested fields whose text may have been overwritten
Nested == {"skills", "requirements"}

\* a field-map with the fields of K overwritten by text that is no JSON
Corrupt(h, K) == [x \in DOMAIN h |-> IF x \in K THEN <<Garbage>> ELSE h[x]]

\* the field-map of JobM as save_job_to_redis wrote it at time 0, with any
\* set of droppable fields missing and any set of nested fields unparsable
StoredMaps ==
  {Drop(Corrupt(redis_fields(JobM, 0), K), D) : K \in SUBSET Nested, D \in SUBSET Droppable}

InitD ==
  /\ Cold
  /\ backend = "redis"
  /\ applied \in {[op |-> "record", r |-> r] : r \in Records}
                 \cup {[op |-> "stored", h |-> h] : h \in StoredMaps}

\* encode (lines 79-99), then decode (lines 205-228)
RoundTrip ==
  /\ applied.op = "record"
  /\ applied' = [op |-> "round_trip", r |-> applied.r,
                 h |-> redis_fields(applied.r, now),
                 out |-> _process_redis_job_data(redis_fields(applied.r, now))]
  /\ UNCHANGED <<backend, now, jobs, search, active, files, putAt, last, procs>>

\* decode of a field-map found in the store
Decode ==
  /\ applied.op = "stored"
  /\ applied' = [op |-> "decode", h |-> applied.h, out |-> _process_redis_job_data(applied.h)]
  /\ UNCHANGED <<backend, now, jobs, search, active, files, putAt, last, procs>>

NextD == RoundTrip \/ Decode

SpecD == InitD /\ [][NextD]_vars

----------------------------------------------------------------------------
(* Search and statistics over a store that puts have filled: every store   *)
(* call succeeds, the clock stands still.                                   *)

Backend == <<"B","a","c","k","e","n","d"," ","E","n","g","i","n","e","e","r">>

\* the posting of the search scenario: remote by its location
JobB == Scraped(Backend, Acme, Remote, "", TRUE)

\* the lists that fill the store
SearchLists == {<<JobA>>, <<JobB, JobM>>, <<JobA, JobB>>}

\* the keywords a caller may pass: None, or a string
TitleKeywords == {<<>>, << <<"b","a","c","k","e","n","d">> >>,
                  << <<"f","r","o","n","t","e","n","d">> >>}
CompanyKeywords == {<<>>, << <<"a","c","m","e">> >>}
LocationKeywords == {<<>>, << <<"N","y","c">> >>}

Criteria ==
  [title_keyword : TitleKeywords, company_keyword : CompanyKeywords,
   location_keyword : LocationKeywords, remote_only : BOOLEAN, trusted_only : BOOLEAN,
   limit : 1..MaxLimit]

\* RedisJobDataCache.search_jobs_by_criteria(...); job_keys: the reply of KEYS
SearchJobs(crit, job_keys, f) ==
  /\ backend = "redis"
  /\ \E r \in {search_jobs_by_criteria(Ctx(jobs, search, active, f), crit, job_keys)} :
         /\ f <= r.c.n
         /\ jobs' = r.c.jobs
         /\ search' = r.c.search
         /\ active' = r.c.active
         /\ last' = [NoOp EXCEPT !.op = "search_jobs_by_criteria", !.arg = crit, !.at = now,
                                 !.fault = Faulted(r.c), !.failed = r.exc, !.ret = r.ret,
                                 !.log = r.c.log]
  /\ UNCHANGED <<backend, now, files, putAt, procs, applied>>

\* RedisJobDataCache.get_job_statistics(); job_keys: the reply of KEYS
GetJobStatistics(job_keys, f) ==
  /\ backend = "redis"
  /\ \E r \in {get_job_statistics(Ctx(jobs, search, active, f), job_keys)} :
         /\ f <= r.c.n
         /\ jobs' = r.c.jobs
         /\ search' = r.c.search
         /\ active' = r.c.active
         /\ last' = [NoOp EXCEPT !.op = "get_job_statistics", !.at = now,
                                 !.fault = Faulted(r.c), !.failed = r.exc, !.ret = r.ret,
                                 !.log = r.c.log]
  /\ UNCHANGED <<backend, now, files, putAt, procs, applied>>

NextS ==
  \/ \E l \in SearchLists : SaveToCache(Query(TRUE), l)
  \/ \E crit \in Criteria, job_keys \in Orders(DOMAIN jobs) : SearchJobs(crit, job_keys, 0)
  \/ \E job_keys \in Orders(DOMAIN jobs) : GetJobStatistics(job_keys, 0)

SpecS == InitC /\ [][NextS]_vars

----------------------------------------------------------------------------
(* get_jobs *)

\* the ids save_to_cache derives for a list of records
IdsOf(l) == [i \in 1..Len(l) |-> JobId(l[i])]

\* C1: a get_jobs without force_refresh calls the scraper iff its
\* load_from_cache reported no result; on a hit it returns the cached records,
\* calls no scraper and writes nothing to the store or the cache directory;
\* on a miss it scrapes once and, the scraper returning, puts once, with the
\* scraper's records
C1_ScrapeIffMiss ==
  [][(last'.op = "get_jobs" /\ ~last'.force) =>
       /\ last'.read
       /\ (last'.scrapes >= 1) <=> ~last'.loaded.hit
       /\ last'.loaded.hit =>
            /\ last'.scrapes = 0 /\ last'.puts = 0
            /\ last'.ret = last'.loaded.data
            /\ UNCHANGED <<jobs, search, active, files>>
       /\ ~last'.loaded.hit => last'.scrapes = 1
       /\ (~last'.loaded.hit /\ ~last'.scraperfail) =>
            /\ last'.puts = 1
            /\ last'.ok
            /\ last'.key \in (IF backend = "redis" THEN DOMAIN search' ELSE DOMAIN files')
            /\ backend = "redis" =>
                 JsonLoads(search'[last'.key].h.job_ids).v = IdsOf(last'.arg)
            /\ backend = "fs" => files'[last'.key].text.json.data = last'.arg]_vars

\* a hit that carries no record at all was returned without a scrape
C1_Witness ==
  /\ last.op = "get_jobs" /\ ~last.force
  /\ last.loaded.hit /\ last.loaded.data = <<>>
  /\ last.scrapes = 0

----------------------------------------------------------------------------
(* put followed by get *)

JobRecordFields ==
  {"title", "company", "location", "description", "job_type", "skills", "requirements",
   "salary", "category", "posted_date", "job_url", "experience_level", "employment_type",
   "remote_work", "is_trusted_company"}

\* b carries the content of a in every JobRecord field a has
SameContent(a, b) ==
  \A f \in JobRecordFields \cap DOMAIN a : f \in DOMAIN b /\ b[f] = a[f]

\* the records of D are those of L, order aside
SameRecords(L, D) ==
  /\ Len(L) = Len(D)
  /\ \E p \in Orders(1..Len(L)) : \A i \in 1..Len(L) : SameContent(L[i], D[p[i]])

\* C2: a load_from_cache that directly follows a successful save_to_cache of
\* the list L under the same key is a hit whose data is the records of L, each
\* with the same content in every JobRecord field, order aside
C2_PutThenGet ==
  (backend = "redis" /\ last.op = "load_from_cache" /\ last.prior.some
     /\ last.prior.ok /\ last.prior.key = last.key) =>
       /\ last.ret.hit
       /\ SameRecords(last.prior.arg, last.ret.data)

----------------------------------------------------------------------------
(* expiry *)

\* C3: a read of a key whose entry was put at t0 is a hit at t0 + T - 1 and
\* gives no result at t0 + T + 1, in both backends
C3_TTLBoundary ==
  (last.read /\ last.put # -1) =>
     /\ last.at = last.put + CacheDuration - 1 => last.loaded.hit
     /\ last.at = last.put + CacheDuration + 1 => ~last.loaded.hit

\* a load_from_cache at t0 + T + 1 found the entry still in the store, refused
\* it on its expires_at and cleared it
C3_Witness ==
  /\ backend = "redis" /\ last.op = "load_from_cache"
  /\ last.put # -1 /\ last.at = last.put + CacheDuration + 1
  /\ ~last.loaded.hit /\ last.log # <<>>

\* C4 as stated: a read at the instant now = expiry = t0 + T finds the entry
\* stale and returns no result
C4_StaleAtExpiry ==
  (last.read /\ last.put # -1 /\ last.at = last.put + CacheDuration) => ~last.loaded.hit

\* C4, amended: the entry is served as long as now <= expiry and refused once
\* now > expiry; a read at now = expiry is a hit
C4_FreshUpToExpiry ==
  (last.read /\ last.put # -1) =>
     (last.loaded.hit <=> last.at <= last.put + CacheDuration)

\* a read at the instant now = expiry was a hit
C4_Witness ==
  /\ last.read /\ last.put # -1
  /\ last.at = last.put + CacheDuration
  /\ last.loaded.hit

----------------------------------------------------------------------------
(* what load_from_cache makes of the entry it finds *)

\* the entry read by the handler lacks a readable expires_at
BadExpiry(found) ==
  "expires_at" \notin DOMAIN found \/ ~FromIso(found.expires_at).ok

\* the entry's expires_at is behind the instant t
Lapsed(found, t) == ~BadExpiry(found) /\ t > FromIso(found.expires_at).v

NoJobIds(found) == "job_ids" \notin DOMAIN found

\* the entry's job_ids is not the text json.dumps gives for a list of ids
BadJobIds(found) ==
  ~NoJobIds(found) /\ found.job_ids \notin {JsonDumps(IdsOf(l)) : l \in JobLists}

\* C5 as stated: load_from_cache returns no result for a key without entry
\* (registered or not), for an entry whose expires_at is behind, and for an
\* entry whose expires_at or job_ids is missing or unparsable
C5_NoResultUnlessFresh ==
  (last.op = "load_from_cache"
     /\ (\/ IsEmpty(last.found)
         \/ BadExpiry(last.found) \/ Lapsed(last.found, last.at)
         \/ NoJobIds(last.found) \/ BadJobIds(last.found)))
    => ~last.ret.hit

\* C5, amended: no result for a key without entry, for an entry whose
\* expires_at is behind, missing or unparsable and for an entry whose job_ids
\* is unparsable; an unexpired entry without job_ids is served as a hit that
\* carries no record
C5_NoResultOrEmptyHit ==
  last.op = "load_from_cache" =>
    /\ (\/ IsEmpty(last.found)
        \/ BadExpiry(last.found) \/ Lapsed(last.found, last.at)
        \/ BadJobIds(last.found)) => ~last.ret.hit
    /\ (~IsEmpty(last.found) /\ ~BadExpiry(last.found) /\ ~Lapsed(last.found, last.at)
          /\ NoJobIds(last.found)) =>
         (last.ret.hit /\ last.ret.data = <<>> /\ last.ret.job_count = 0)

\* an entry with unparsable job_ids was read before its expiry and refused
C5_Witness ==
  /\ last.op = "load_from_cache"
  /\ ~IsEmpty(last.found) /\ ~BadExpiry(last.found) /\ ~Lapsed(last.found, last.at)
  /\ BadJobIds(last.found)
  /\ ~last.ret.hit

----------------------------------------------------------------------------
(* a read of a fresh entry *)

\* the entry read by the handler is whole and not behind the instant t
Servable(found, t) ==
  /\ ~IsEmpty(found) /\ ~BadExpiry(found) /\ ~Lapsed(found, t)
  /\ ~NoJobIds(found) /\ ~BadJobIds(found)

\* the decoded records of those ids that have a record in the store, in order
Resolved(ids) ==
  LET Live(id) == id \in DOMAIN jobs
      live == SelectSeq(ids, Live)
  IN  [i \in 1..Len(live) |-> _process_redis_job_data(jobs[live[i]].h)]

\* C6: a read of a fresh entry is a hit whose data is the decoded records of
\* the referenced ids that are still in the store, one per referenced id, the
\* others skipped, and whose job_count is the number of records returned
C6_HitResolvesIds ==
  (backend = "redis" /\ last.read /\ Servable(last.found, last.at)) =>
     /\ last.loaded.hit
     /\ last.loaded.data = Resolved(JsonLoads(last.found.job_ids).v)
     /\ last.loaded.job_count = Len(last.loaded.data)

\* a fresh entry was read of which a referenced record is gone from the store
C6_Witness ==
  /\ backend = "redis" /\ last.read /\ Servable(last.found, last.at)
  /\ last.loaded.hit
  /\ Len(last.loaded.data) < Len(JsonLoads(last.found.job_ids).v)

----------------------------------------------------------------------------
(* put *)

\* the ids an index entry names
Named(entry) == LET ids == JsonLoads(entry.job_ids).v IN {ids[i] : i \in 1..Len(ids)}

Range(seq) == {seq[i] : i \in 1..Len(seq)}

Written == {last.log[i].key : i \in {j \in 1..Len(last.log) :
                                       last.log[j].call = "hset" /\ last.log[j].ns = "job"}}

\* C8: a put in which a record write failed still returns True, its index
\* entry is written and registered, and an id is named by the index entry
\* iff its record was written to the store by this put
C8_IndexIffWritten ==
  (backend = "redis" /\ last.puts = 1 /\ Len(last.saved) < Len(last.arg)) =>
     /\ last.ok
     /\ last.key \in DOMAIN search /\ last.key \in active
     /\ Named(search[last.key].h) = Written

----------------------------------------------------------------------------
(* clear *)

\* the entry is fresh by the strictest reading: now < expires_at
StrictlyFresh(entry, t) ==
  ~BadExpiry(entry) /\ t < FromIso(entry.expires_at).v

\* C9: clear_expired_cache leaves every fresh index entry in the store, and
\* every record that a fresh entry names
C9_SweepKeepsFresh ==
  [][last'.op = "clear_expired" =>
       \A k \in DOMAIN search :
          StrictlyFresh(search[k].h, now) =>
             /\ k \in DOMAIN search'
             /\ \A id \in Named(search[k].h) : id \in DOMAIN jobs => id \in DOMAIN jobs']_vars

\* C10: after a clear_all_cache that did not end in its exception handler
\* (Redis) and in which no os.remove failed (files), no index entry, no job
\* record and no member of active_searches is left, and no file in the cache
\* directory
C10_ClearAllLeavesNothing ==
  (last.op = "clear_all" /\ ~last.failed) =>
     /\ search = EmptyMap /\ jobs = EmptyMap /\ active = {}
     /\ files = EmptyMap

\* clear_all_cache ran on a store that held an index entry that was not
\* registered and a record that no entry named
C10_Witness ==
  /\ backend = "redis" /\ last.op = "clear_all" /\ ~last.failed
  /\ last.before.search \ last.before.active # {}
  /\ last.before.jobs # {}
  /\ search = EmptyMap /\ jobs = EmptyMap /\ active = {}

----------------------------------------------------------------------------
(* shared records *)

\* the handler deleted the index entry of cache_key: clear_search_cache ran on it
Cleared(log, cache_key) ==
  \E i \in 1..Len(log) :
     log[i].call = "del" /\ log[i].ns = "search" /\ log[i].key = cache_key

\* the handler deleted the record id
Deleted(log, id) ==
  \E i \in 1..Len(log) : log[i].call = "del" /\ log[i].ns = "job" /\ log[i].key = id

\* C11: when the sweep, clear-all or a read of a stale entry clears the index
\* entry of a key, every record that entry names is gone from the store
\* afterwards, whatever other entries name it
C11_NoReferenceCounting ==
  [][last'.op \in {"load_from_cache", "clear_expired", "clear_all"} =>
       \A k \in DOMAIN search :
          Cleared(last'.log, k) =>
             \A id \in Named(search[k].h) : id \notin DOMAIN jobs']_vars

\* the sweep cleared a stale entry and with it deleted a record that an entry
\* still in the store and not yet expired names
C11_Witness ==
  /\ last.op = "clear_expired"
  /\ \E k \in CacheKeys : Cleared(last.log, k)
  /\ \E k \in DOMAIN search :
        /\ StrictlyFresh(search[k].h, now)
        /\ \E id \in Named(search[k].h) : Deleted(last.log, id) /\ id \notin DOMAIN jobs

----------------------------------------------------------------------------
(* active_searches *)

\* C12: once clear_expired_cache has run, every member of active_searches
\* has an index entry in the store and every index entry in the store is a
\* member of active_searches
C12_ActiveIsLive ==
  (backend = "redis" /\ last.op = "clear_expired" /\ ~last.failed) =>
     /\ \A k \in active : k \in DOMAIN search
     /\ \A k \in DOMAIN search : k \in active

----------------------------------------------------------------------------
(* force_refresh *)

\* C13: a get_jobs with force_refresh reads nothing from the cache, calls
\* the scraper once and, the scraper returning, puts once, returns the
\* scraper's records, and leaves under its key the index entry (the file) of
\* this put
C13_ForceRefreshBypasses ==
  (last.op = "get_jobs" /\ last.force) =>
     /\ ~last.read /\ ~last.loaded.hit
     /\ last.scrapes = 1
     /\ ~last.scraperfail => last.puts = 1 /\ last.ok
     /\ (backend = "redis" /\ ~last.scraperfail) =>
          /\ last.ret = WithIds(last.arg)
          /\ last.key \in DOMAIN search
          /\ search[last.key].h.created_at = IsoFormat(last.at)
          /\ JsonLoads(search[last.key].h.job_ids).v = IdsOf(last.arg)
     /\ (backend = "fs" /\ ~last.scraperfail) =>
          /\ last.ret = last.arg
          /\ last.key \in DOMAIN files
          /\ files[last.key].mtime = last.at
          /\ files[last.key].text.json.data = last.arg

\* a forced get_jobs ran on a key whose entry of an earlier put was still
\* fresh, and replaced that entry
C13_Witness ==
  /\ backend = "redis" /\ last.op = "get_jobs" /\ last.force
  /\ last.put # -1 /\ last.put < last.at /\ last.at <= last.put + CacheDuration
  /\ last.scrapes = 1
  /\ search[last.key].h.created_at = IsoFormat(last.at)

----------------------------------------------------------------------------
(* C14, C15: concurrent callers *)

\* caller p has written the index entry of its fingerprint
Stamped(p) == procs[p].pc # "idle" /\ procs[p].stamp > 0

\* caller p issued the latest index write on its fingerprint
WroteLast(p) ==
  /\ Stamped(p)
  /\ \A o \in Procs \ {p} :
        (Stamped(o) /\ procs[o].key = procs[p].key) => procs[o].stamp < procs[p].stamp

\* caller p went through a miss, one scrape and one put
MissedAndPut(p) ==
  /\ procs[p].pc = "done" /\ ~procs[p].force /\ procs[p].missed
  /\ procs[p].scrapes = 1 /\ procs[p].puts = 1

\* C14: nothing keeps two callers of get_jobs with the same query from both
\* missing, both scraping and both putting; whatever the interleaving, the
\* index entry in the store lists the records of the caller whose index
\* write came last.
C14_LastWriterWins ==
  \A p \in Procs : WroteLast(p) =>
     /\ procs[p].key \in DOMAIN search
     /\ search[procs[p].key].h.job_ids = JsonDumps(IdsOf(procs[p].scraped))
     /\ search[procs[p].key].h.job_count = Len(procs[p].scraped)

\* both callers missed on the same query, scraped different lists and put;
\* the entry is the later writer's
C14_Witness ==
  /\ \A p \in Procs : MissedAndPut(p)
  /\ procs["a"].q = procs["b"].q
  /\ procs["a"].scraped # procs["b"].scraped
  /\ procs["a"].stamp = 2
  /\ search[procs["a"].key].h.job_ids = JsonDumps(IdsOf(procs["a"].scraped))

\* both callers have completed a put on the same fingerprint
BothPut ==
  /\ \A p \in Procs : procs[p].pc = "done" /\ procs[p].puts = 1
  /\ procs["a"].key = procs["b"].key

\* C15: once two puts on one fingerprint have both completed, however their
\* store calls interleaved, the index entry lists the ids written by one of
\* the two, the fingerprint is registered, and every id the entry names is
\* the key of a stored record that carries a TTL.
C15_ConcurrentPutsSafe ==
  BothPut =>
     LET key == procs["a"].key
     IN  /\ key \in DOMAIN search
         /\ search[key].h.job_ids \in {JsonDumps(IdsOf(procs[p].scraped)) : p \in Procs}
         /\ search[key].ttl # NoTTL
         /\ key \in active
         /\ \A id \in Named(search[key].h) :
               id \in DOMAIN jobs /\ jobs[id].ttl # NoTTL /\ ~IsEmpty(HGetAll(jobs, id))

\* two forced refreshes of one query wrote different lists that share a
\* record; the entry that stays is the one of the second index write
C15_Witness ==
  /\ BothPut
  /\ \A p \in Procs : procs[p].force
  /\ procs["a"].scraped = <<JobA>> /\ procs["b"].scraped = <<JobA, JobM>>
  /\ procs["b"].stamp = 2
  /\ Named(search[procs["b"].key].h) = {JobId(JobA), JobId(JobM)}

----------------------------------------------------------------------------
(* C16, C17: the cache key *)

QueryArgs == {"keywords", "location", "max_jobs", "job_type_filter", "category_filter",
              "trusted_only"}

\* the arguments in which two tuples differ
Differing(a, b) == {x \in QueryArgs : a[x] # b[x]}

\* C16: generate_cache_key is a function of its six arguments, the same in
\* both backends: equal tuples give equal keys, and two tuples that differ in
\* exactly one argument give different keys.
C16_KeyDeterminedByArgs ==
  applied.op = "generate_cache_key" =>
     /\ applied.other = applied.ka
     /\ applied.a = applied.b => applied.ka = applied.kb
     /\ Cardinality(Differing(applied.a, applied.b)) = 1 => applied.ka # applied.kb

\* C17: two different argument tuples never give the same string to hash.
C17_DifferentTuplesDifferentStrings ==
  (applied.op = "generate_cache_key" /\ applied.a # applied.b) => applied.sa # applied.sb

----------------------------------------------------------------------------
(* C18: the record id *)

\* what the id of a record without job_id is drawn from
Triple(d) == <<Get(d, "title", <<>>), Get(d, "company", <<>>), Get(d, "location", <<>>)>>

\* the keys of the stored records of one posting
StoredFor(tbl, triple) == {k \in DOMAIN tbl : Triple(tbl[k].h) = triple}

\* the last record of the list for one posting
LastFor(jobs_data, triple) ==
  jobs_data[CHOOSE i \in 1..Len(jobs_data) :
              /\ Triple(jobs_data[i]) = triple
              /\ \A j \in (i + 1)..Len(jobs_data) : Triple(jobs_data[j]) # triple]

\* C18: the id of a record without job_id is drawn from title, company and
\* location only: after every put the store holds one record for the
\* posting of each such record of the list, with the content scraped last
\* and a TTL that starts at the put, and no two stored records are of the
\* same posting.
C18_OneRecordPerPosting ==
  (last.op = "save_to_cache" /\ last.ok) =>
     /\ \A i \in 1..Len(last.arg) :
           "job_id" \notin DOMAIN last.arg[i] =>
              /\ Cardinality(StoredFor(jobs, Triple(last.arg[i]))) = 1
              /\ \A k \in StoredFor(jobs, Triple(last.arg[i])) :
                    /\ jobs[k].ttl = last.at + CacheDuration
                    /\ jobs[k].h.salary = LastFor(last.arg, Triple(last.arg[i])).salary
                    /\ jobs[k].h.created_at = IsoFormat(last.at)
     /\ \A k1 \in DOMAIN jobs, k2 \in DOMAIN jobs :
           Triple(jobs[k1].h) = Triple(jobs[k2].h) => k1 = k2

\* a posting held with an earlier deadline and without salary is scraped
\* again: one record, the new salary, the deadline renewed
C18_Witness ==
  /\ last.op = "save_to_cache" /\ last.arg = <<JobA2>>
  /\ \E k \in DOMAIN last.held :
        /\ Triple(last.held[k].h) = Triple(JobA2)
        /\ last.held[k].h.salary = ""
        /\ last.held[k].ttl < last.at + CacheDuration
        /\ k \in DOMAIN jobs
        /\ jobs[k].h.salary = "90k"
        /\ jobs[k].ttl = last.at + CacheDuration
  /\ Cardinality(StoredFor(jobs, Triple(JobA2))) = 1

----------------------------------------------------------------------------
(* C19, C20: the codec *)

\* C19: decoding the field-map that save_job_to_redis builds from a record
\* gives the record back in every JobRecord field it carries, remote_work
\* and the boolean is_trusted_company included.
C19_CodecRoundTrip ==
  applied.op = "round_trip" => SameContent(applied.r, applied.out)

\* the JobRecord field a stored field is decoded into
StoredAs(f) ==
  IF f = "description" THEN "responsibilities"
  ELSE IF f = "job_url" THEN "url"
  ELSE IF f = "remote_work" THEN "remote"
  ELSE f

\* what decode owes for JobRecord field f of the field-map h: the stored
\* value where it is usable, else the default
Owed(h, f) ==
  LET g == StoredAs(f)
  IN  IF f \in Nested
      THEN (IF g \in DOMAIN h /\ JsonLoads(h[g]).ok THEN JsonLoads(h[g]).v ELSE <<>>)
      ELSE IF f = "is_trusted_company"
      THEN g \in DOMAIN h /\ h[g] = BoolStr(TRUE)
      ELSE IF g \in DOMAIN h THEN h[g]
      ELSE IF f \in {"title", "company", "location", "description"} THEN <<>>
      ELSE IF f = "remote_work" THEN "No"
      ELSE ""

\* C20: decode of a field-map with fields missing or with skills or
\* requirements that do not parse returns a record that has every JobRecord
\* field, with the stored value where it is usable and the default otherwise.
C20_DecodeTotal ==
  applied.op = "decode" =>
     \A f \in JobRecordFields :
        f \in DOMAIN applied.out /\ applied.out[f] = Owed(applied.h, f)

----------------------------------------------------------------------------
(* C21, C22, C23: search and statistics *)

\* the decoded record satisfies one substring predicate, case aside
HasSubstring(keyword, text) ==
  keyword = <<>> \/ Contains(Lower(keyword[1]), Lower(text))

\* the decoded record rec satisfies every predicate of crit
Satisfies(rec, crit) ==
  /\ HasSubstring(crit.title_keyword, rec.title)
  /\ HasSubstring(crit.company_keyword, rec.company)
  /\ HasSubstring(crit.location_keyword, rec.location)
  /\ crit.remote_only => rec.remote_work \in {"Yes", "Hybrid"}
  /\ crit.trusted_only => rec.is_trusted_company

\* the keys of the stored records that satisfy crit
Matching(crit) == {k \in DOMAIN jobs : Satisfies(_process_redis_job_data(jobs[k].h), crit)}

\* C21: search_jobs_by_criteria returns at most limit records, each of them a
\* stored record that satisfies all the predicates supplied; below the
\* limit every stored record that satisfies them is returned (the record
\* Backend Engineer / Acme / Remote for remote_only and for company acme),
\* and without a match the result is the empty list, without error.
C21_SearchReturnsMatches ==
  last.op = "search_jobs_by_criteria" =>
     /\ ~last.failed
     /\ Len(last.ret) <= last.arg.limit
     /\ \A i \in 1..Len(last.ret) :
           /\ Satisfies(last.ret[i], last.arg)
           /\ last.ret[i].job_id \in Matching(last.arg)
           /\ \A j \in 1..Len(last.ret) : last.ret[j].job_id = last.ret[i].job_id => j = i
     /\ \/ Len(last.ret) = last.arg.limit
        \/ \A k \in Matching(last.arg) : \E i \in 1..Len(last.ret) : last.ret[i].job_id = k
     /\ Matching(last.arg) = {} => last.ret = <<>>

\* three records are stored; the search for company acme, remote only,
\* returns the one Backend Engineer record
C21_Witness ==
  /\ last.op = "search_jobs_by_criteria"
  /\ Cardinality(DOMAIN jobs) = 3
  /\ last.arg.company_keyword = << <<"a","c","m","e">> >>
  /\ last.arg.remote_only /\ last.arg.title_keyword = <<>>
  /\ Len(last.ret) = 1
  /\ last.ret[1].title = Backend /\ last.ret[1].remote_work = "Yes"

\* the groupings of the statistics and the stored field each one counts
Groupings ==
  [by_company |-> "company", by_location |-> "location", by_job_type |-> "job_type",
   by_category |-> "category", by_experience_level |-> "experience_level"]

\* the stored records whose field f holds v
Holding(f, v) == {k \in DOMAIN jobs : jobs[k].h[f] = v}

RECURSIVE SumOf(_)
SumOf(d) == IF d = <<>> THEN 0 ELSE Head(d).n + SumOf(Tail(d))

\* grouping d counts the stored records per value of field f, highest count
\* first
CountsField(d, f) ==
  /\ \A i \in 1..Len(d) :
        /\ d[i].n = Cardinality(Holding(f, d[i].k))
        /\ d[i].n > 0
        /\ \A j \in 1..Len(d) : d[j].k = d[i].k => j = i
  /\ \A k \in DOMAIN jobs : \E i \in 1..Len(d) : d[i].k = jobs[k].h[f]
  /\ SumOf(d) = Cardinality(DOMAIN jobs)
  /\ \A i \in 1..Len(d), j \in 1..Len(d) : i < j => d[i].n >= d[j].n

IndexBlind ==
  /\ last.op = "search_jobs_by_criteria" =>
        \E job_keys \in Orders(DOMAIN jobs) :
           last.ret = search_jobs_by_criteria(Ctx(jobs, EmptyMap, {}, 0), last.arg, job_keys).ret
  /\ last.op = "get_job_statistics" =>
        \E job_keys \in Orders(DOMAIN jobs) :
           last.ret = get_job_statistics(Ctx(jobs, EmptyMap, {}, 0), job_keys).ret

\* C23: search_jobs_by_criteria and get_job_statistics leave the records,
\* the index entries, the TTLs and active_searches as they were, and what
\* they return is what they return on the same records without any index
\* entry.
C23_SearchAndStatsReadOnly ==
  /\ [][last'.op \in {"search_jobs_by_criteria", "get_job_statistics"} =>
          jobs' = jobs /\ search' = search /\ active' = active]_vars
  /\ []IndexBlind

\* a search returned a record that no index entry names any more
C23_Witness ==
  /\ last.op = "search_jobs_by_criteria"
  /\ \E i \in 1..Len(last.ret) :
        /\ last.ret[i].job_id \in DOMAIN jobs
        /\ jobs[last.ret[i].job_id].ttl # NoTTL
        /\ \A k \in DOMAIN search : last.ret[i].job_id \notin Named(search[k].h)
  /\ search # EmptyMap /\ active # {}

----------------------------------------------------------------------------
(* C24: store failures *)

\* what get_jobs returns when every store call succeeds and it scrapes
NormalReturns == {WithIds(l) : l \in JobLists}

\* C24: when a store call fails during a get_jobs, the failed read reports
\* something other than the no-result of a plain miss, the failed put
\* reports something other than the success of a write, and the caller of
\* get_jobs receives something other than the list of a normal outcome.
C24_StoreFailureSurfaced ==
  (backend = "redis" /\ last.op = "get_jobs" /\ last.fault) =>
     /\ last.readfault => last.loaded # PyNone
     /\ (~last.readfault /\ last.puts = 1) => ~last.ok
     /\ last.ret \notin NormalReturns

----------------------------------------------------------------------------
(* C25: scraper failure *)

\* the store as the cache read of get_jobs on key k leaves it
AfterRead(k) == load_from_cache(Ctx(jobs, search, active, 0), k, now).c

\* C25: when scrape_jobs raises inside get_jobs, the exception reaches the
\* caller, the scraper was called once, nothing was put, and the store is
\* as it was just before the scraper call: untouched under force_refresh,
\* as the cache read left it otherwise; the cache directory is untouched.
C25_ScraperFailurePropagates ==
  [][(last'.op = "get_jobs" /\ last'.scraperfail) =>
        /\ last'.raised
        /\ last'.scrapes = 1 /\ last'.puts = 0
        /\ files' = files
        /\ last'.force => jobs' = jobs /\ search' = search /\ active' = active
        /\ (backend = "redis" /\ ~last'.force) =>
              /\ jobs' = AfterRead(last'.key).jobs
              /\ search' = AfterRead(last'.key).search
              /\ active' = AfterRead(last'.key).active]_vars

\* the scraper raised under force_refresh while a fresh entry with a record
\* was in the store; entry and record are still there
C25_Witness ==
  /\ backend = "redis" /\ last.op = "get_jobs" /\ last.scraperfail /\ last.force
  /\ last.raised /\ last.puts = 0
  /\ last.key \in DOMAIN search /\ StrictlyFresh(search[last.key].h, now)
  /\ Named(search[last.key].h) # {} /\ Named(search[last.key].h) \subseteq DOMAIN jobs
  /\ last.key \in active

----------------------------------------------------------------------------
(* C26: validation at write time *)

\* the required fields the record lacks
Lacks(job_data) == {"title", "company"} \ DOMAIN job_data

\* C26: a put writes no field-map for a record that has neither title nor
\* company and leaves its id out of the index entry, and writes the other
\* records of the list and the index entry.
C26_InvalidRecordRejected ==
  (last.op = "save_to_cache" /\ last.ok) =>
     /\ \A i \in 1..Len(last.arg) :
           IF Lacks(last.arg[i]) = {"title", "company"}
           THEN /\ ~\E j \in 1..Len(last.log) :
                      last.log[j].ns = "job" /\ last.log[j].key = JobId(last.arg[i])
                /\ JobId(last.arg[i]) \notin Named(search[last.key].h)
           ELSE /\ JobId(last.arg[i]) \in DOMAIN jobs
                /\ JobId(last.arg[i]) \in Named(search[last.key].h)
     /\ last.key \in DOMAIN search

----------------------------------------------------------------------------
(* The constructor of RedisJobDataCache: one action per client call *)

max_retries == 3

\* what a ping can raise
PingErrors == {"refused", "timeout", "auth", "loading"}

Pong == "ok"

\* the constructor before its first statement that can fail
Constructing ==
  [op |-> "__init__", pc |-> "client", attempt |-> 0, pings |-> <<>>,
   slept |-> <<>>, message |-> <<>>]

InitR == Cold /\ backend = "redis" /\ applied = Constructing

LastAttemptLate(attempt) == attempt = max_retries

\* if attempt == max_retries - 1: raise
LastAttempt(attempt) == attempt = max_retries - 1

\* time.sleep(2 ** attempt)
Backoff(attempt) == 2 ^ attempt

\* redis.Redis(...): builds the client without connecting; an exception here
\* is caught by the outer handler
NewClient(raises) ==
  /\ applied.op = "__init__" /\ applied.pc = "client"
  /\ applied' = IF raises
                THEN [applied EXCEPT !.pc = "ConnectionError", !.message = <<"config">>]
                ELSE [applied EXCEPT !.pc = "ping"]
  /\ UNCHANGED <<backend, now, jobs, search, active, files, putAt, last, procs>>

\* self.redis_client.ping() inside the loop and what follows it
Ping(outcome) ==
  /\ applied.op = "__init__" /\ applied.pc = "ping"
  /\ applied' =
       IF outcome = Pong
       THEN [applied EXCEPT !.pings = Append(@, outcome), !.pc = "connected"]
       ELSE IF LastAttempt(applied.attempt)
       THEN [applied EXCEPT !.pings = Append(@, outcome), !.pc = "ConnectionError",
                            !.message = <<outcome>>]
       ELSE [applied EXCEPT !.pings = Append(@, outcome), !.pc = "sleep"]
  /\ UNCHANGED <<backend, now, jobs, search, active, files, putAt, last, procs>>

\* the wait after a failed attempt that is not the last, then the next turn
\* of the loop
Sleep ==
  /\ applied.op = "__init__" /\ applied.pc = "sleep"
  /\ applied' = [applied EXCEPT !.slept = Append(@, Backoff(applied.attempt)),
                                !.attempt = @ + 1, !.pc = "ping"]
  /\ UNCHANGED <<backend, now, jobs, search, active, files, putAt, last, procs>>

NextR ==
  \/ \E raises \in BOOLEAN : NewClient(raises)
  \/ \E outcome \in PingErrors \cup {Pong} : Ping(outcome)
  \/ Sleep

SpecR == InitR /\ [][NextR]_vars

----------------------------------------------------------------------------
(* C27: bounded retry of the connection *)

\* the attempts that failed
FailedPings == {i \in 1..Len(applied.pings) : applied.pings[i] # Pong}

\* C27: the constructor pings at most max_retries times, waits 2^attempt (1,
\* then 2) after each failed attempt that is not the last and at no other
\* time, ends connected exactly when a ping succeeds, whose ping is then its
\* last, ends with a ConnectionError after the third failed ping, and has a
\* step to take in every other state.
C27_BoundedRetry ==
  applied.op = "__init__" =>
     /\ Len(applied.pings) <= max_retries
     /\ applied.attempt < max_retries
     /\ \A i \in 1..Len(applied.pings) :
           applied.pings[i] = Pong => i = Len(applied.pings)
     /\ applied.pc = "connected" <=>
           (applied.pings # <<>> /\ applied.pings[Len(applied.pings)] = Pong)
     /\ applied.pc = "ConnectionError" <=>
           \/ Cardinality(FailedPings) = max_retries
           \/ (applied.pings = <<>> /\ applied.message # <<>>)
     /\ Len(applied.slept) =
           IF applied.pc = "ping" \/ applied.pings = <<>>
           THEN Len(applied.pings) ELSE Len(applied.pings) - 1
     /\ \A i \in 1..Len(applied.slept) : applied.slept[i] = 2 ^ (i - 1)
     /\ applied.pc \in {"client", "ping", "sleep", "connected", "ConnectionError"}
     /\ applied.pc \in {"client", "ping", "sleep"} => ENABLED NextR
     /\ applied.pc \in {"connected", "ConnectionError"} => ~ENABLED NextR

\* three pings failed, with waits of 1 and 2 between them
C27_Witness ==
  /\ applied.op = "__init__" /\ applied.pc = "ConnectionError"
  /\ Len(applied.pings) = max_retries
  /\ applied.slept = <<1, 2>>

----------------------------------------------------------------------------
(* C28: expiry in the filesystem backend *)

\* the files with the timestamp field of every JSON text set to ts
Retimed(fl, ts) ==
  [k \in DOMAIN fl |->
     IF "json" \in DOMAIN fl[k].text
     THEN [fl[k] EXCEPT !.text = [json |-> [fl[k].text.json EXCEPT !.timestamp = ts]]]
     ELSE fl[k]]

\* the values a timestamp field can hold
Timestamps == {IsoFormat(t) : t \in 0..MaxTime} \cup {Garbage}

\* the file for k exists and its age is within the cache duration
Young(fl, k, t) == k \in DOMAIN fl /\ t - fl[k].mtime <= CacheDuration

\* C28: in the filesystem backend a read of k is a hit iff the file for k
\* exists and now - mtime <= cache_duration; the sweep deletes exactly the
\* files with now - mtime > cache_duration, so it leaves exactly the files a
\* read would serve; a save sets the file's mtime to now; and neither the read
\* nor the sweep comes out differently for another timestamp field in the
\* files.
C28_MtimeDecidesExpiry ==
  [][backend = "fs" =>
       /\ last'.read =>
             /\ Truthy(last'.loaded) <=> Young(files, last'.key, now)
             /\ \A ts \in Timestamps :
                   Truthy(fs_load_from_cache(FCtx(Retimed(files, ts), 0), last'.key, now).res)
                      <=> Truthy(last'.loaded)
       /\ last'.op = "clear_expired" =>
             /\ DOMAIN files' = {k \in DOMAIN files : Young(files, k, now)}
             /\ \A k \in DOMAIN files' : files'[k] = files[k]
             /\ \A k \in CacheKeys : k \in DOMAIN files' <=> Young(files', k, now)
             /\ \A ts \in Timestamps, fo \in Orders(DOMAIN files) :
                   DOMAIN fs_clear_expired_cache(FCtx(Retimed(files, ts), 0), now, fo).c.files
                      = DOMAIN files'
       /\ (last'.op = "get_jobs" /\ last'.puts = 1 /\ last'.ok) =>
             /\ files'[last'.key].mtime = now
             /\ Young(files', last'.key, now)
  ]_vars

\* a sweep deleted one file and kept another
C28_Witness ==
  /\ backend = "fs" /\ last.op = "clear_expired"
  /\ last.before.files \ DOMAIN files # {}
  /\ DOMAIN files # {}

----------------------------------------------------------------------------
(* C29: the order of a put's store writes *)

\* the positions in the log of the last operation where the call was made
CallsAt(call, ns, key) ==
  {i \in 1..Len(last.log) : last.log[i] = [call |-> call, ns |-> ns, key |-> key]}

\* the positions where a write of the put went to one of the namespaces
WritesTo(nss) ==
  {i \in 1..Len(last.log) :
     last.log[i].call \in {"hset", "expire", "sadd"} /\ last.log[i].ns \in nss}

\* C29: in a put, however far it got, every write of a record comes before
\* every write of the index entry and those before the registration; the
\* index entry the put wrote names only records the put had written by then;
\* and the key was added to active_searches only after the put had written
\* its index entry and the entry's TTL.
C29_PutOrder ==
  (backend = "redis" /\ last.op = "get_jobs" /\ last.puts = 1) =>
     /\ \A i \in WritesTo({"job"}), j \in WritesTo({"search", "active"}) : i < j
     /\ \A i \in WritesTo({"search"}), j \in WritesTo({"active"}) : i < j
     /\ \A i \in CallsAt("hset", "search", last.key) :
           /\ last.key \in DOMAIN search
           /\ \A id \in Named(search[last.key].h) :
                 \E j \in CallsAt("hset", "job", id) : j < i
     /\ \A i \in CallsAt("sadd", "active", last.key) :
           /\ \E j \in CallsAt("hset", "search", last.key),
                 k \in CallsAt("expire", "search", last.key) : j < k /\ k < i
           /\ last.key \in DOMAIN search
           /\ search[last.key].ttl # NoTTL
     /\ ~last.ok => CallsAt("sadd", "active", last.key) = {}

\* a put that stopped after writing a non-empty index entry and before the
\* registration
C29_Witness ==
  /\ backend = "redis" /\ last.op = "get_jobs" /\ last.puts = 1 /\ ~last.ok
  /\ CallsAt("hset", "search", last.key) # {}
  /\ CallsAt("sadd", "active", last.key) = {}
  /\ last.key \in DOMAIN search
  /\ Named(search[last.key].h) # {}

----------------------------------------------------------------------------
(* C30: what a read changes *)

\* the index entry is in the store and its expires_at is behind t
Stale(entry, t) ==
  /\ DOMAIN entry # {}
  /\ FromIso(entry.expires_at).ok
  /\ t > FromIso(entry.expires_at).v

\* C30: a load_from_cache of a key whose index entry is in the store with its
\* expires_at passed returns no result and leaves the store without the entry,
\* without the key in active_searches and without any record the entry named;
\* a load_from_cache of a key whose entry is fresh or absent leaves the store
\* as it was.
C30_ReadClearsStale ==
  [][(backend = "redis" /\ last'.op = "load_from_cache") =>
       LET entry == HGetAll(search, last'.key)
       IN  IF Stale(entry, now)
           THEN /\ ~last'.ret.hit
                /\ search' = Drop(search, {last'.key})
                /\ active' = active \ {last'.key}
                /\ jobs' = Drop(jobs, Named(entry))
           ELSE /\ UNCHANGED <<jobs, search, active>>
                /\ last'.ret.hit <=> DOMAIN entry # {}
  ]_vars

\* a read found a registered entry past its expires_at that named records,
\* and cleared it
C30_Witness ==
  /\ backend = "redis" /\ last.op = "load_from_cache"
  /\ Stale(last.found, last.at)
  /\ Named(last.found) # {}
  /\ last.key \notin DOMAIN search
  /\ \E i \in 1..Len(last.log) : last.log[i].call = "srem"

----------------------------------------------------------------------------
(* Puts, gets and the clock only: no clear is called, every store call      *)
(* succeeds, and the clock may advance inside a put at either of its two    *)
(* places.                                                                  *)

AllSlips == {0, 1, 2}

NextG ==
  \/ Tick
  \/ \E k \in CacheKeys : LoadFromCache(k, 0)
  \/ \E q \in Queries, force \in BOOLEAN, l \in JobLists, slip \in AllSlips :
        GetJobs(q, force, l, slip, 0)

SpecG == InitC /\ [][NextG]_vars

----------------------------------------------------------------------------
(* C31: records outlive the fresh entries that name them *)

\* C31: every record id named by an index entry whose expires_at has not
\* passed has a record in the store.
C31_FreshEntryResolves ==
  \A k \in DOMAIN search :
     (FromIso(search[k].h.expires_at).ok /\ now <= FromIso(search[k].h.expires_at).v)
        => Named(search[k].h) \subseteq DOMAIN jobs

----------------------------------------------------------------------------
(* A clear of one search running beside the puts of concurrent callers: one *)
(* action per store call of clear_search_cache, its position held in        *)
(* applied; every call succeeds, the clock stands still.                    *)

\* clear_search_cache(cache_key) is entered
XBegin(cache_key) ==
  /\ applied = NoCall
  /\ applied' = [op |-> "clear_search_cache", pc |-> "hgetall", key |-> cache_key,
                 ids |-> <<>>]
  /\ UNCHANGED <<backend, now, jobs, search, active, files, putAt, last, procs>>

\* lines 278-280: HGETALL search:<key> and json.loads of its job_ids
XReadEntry ==
  /\ applied.op = "clear_search_cache" /\ applied.pc = "hgetall"
  /\ LET search_data == HGetAll(search, applied.key)
         named == ~IsEmpty(search_data) /\ "job_ids" \in DOMAIN search_data
         job_ids == IF named THEN JsonLoads(search_data.job_ids)
                    ELSE [ok |-> TRUE, v |-> <<>>]
     IN  applied' = IF ~job_ids.ok THEN [applied EXCEPT !.pc = "done"]
                    ELSE [applied EXCEPT !.ids = job_ids.v,
                                         !.pc = IF job_ids.v = <<>> THEN "del_search"
                                                ELSE "del_job"]
  /\ UNCHANGED <<backend, now, jobs, search, active, files, putAt, last, procs>>

\* lines 283-284: DEL job-scraping:<id> for the next id
XDelJob ==
  /\ applied.op = "clear_search_cache" /\ applied.pc = "del_job"
  /\ jobs' = Del(jobs, {Head(applied.ids)})
  /\ applied' = [applied EXCEPT !.ids = Tail(@),
                                !.pc = IF Tail(applied.ids) = <<>> THEN "del_search"
                                       ELSE "del_job"]
  /\ UNCHANGED <<backend, now, search, active, files, putAt, last, procs>>

\* line 287: DEL search:<key>
XDelSearch ==
  /\ applied.op = "clear_search_cache" /\ applied.pc = "del_search"
  /\ search' = Del(search, {applied.key})
  /\ applied' = [applied EXCEPT !.pc = "srem"]
  /\ UNCHANGED <<backend, now, jobs, active, files, putAt, last, procs>>

\* line 290: SREM active_searches <key>
XSrem ==
  /\ applied.op = "clear_search_cache" /\ applied.pc = "srem"
  /\ active' = SRem(active, applied.key)
  /\ applied' = [applied EXCEPT !.pc = "done"]
  /\ UNCHANGED <<backend, now, jobs, search, files, putAt, last, procs>>

NextX ==
  \/ \E p \in Procs, q \in Queries : CBegin(p, q, TRUE)
  \/ \E p \in Procs, l \in JobLists : CScrape(p, l)
  \/ \E p \in Procs : CHsetJob(p)
  \/ \E p \in Procs : CExpireJob(p)
  \/ \E p \in Procs : CHsetSearch(p)
  \/ \E p \in Procs : CExpireSearch(p)
  \/ \E p \in Procs : CSadd(p)
  \/ \E k \in CacheKeys : XBegin(k)
  \/ XReadEntry
  \/ XDelJob
  \/ XDelSearch
  \/ XSrem

SpecX == InitC /\ [][NextX]_vars

----------------------------------------------------------------------------
(* C32: a put beside a clear of the same key *)

\* no caller and no clear is part-way through its store calls
Quiescent ==
  /\ \A p \in Procs : procs[p].pc \in {"idle", "done"}
  /\ applied.op = "clear_search_cache" => applied.pc = "done"

\* C32: once a put of k and a clear of k have both completed, either the
\* index entry of k exists, k is in active_searches and every record the
\* entry names is stored, or k has no index entry and is not in
\* active_searches.
C32_PutBesideClearConsistent ==
  (/\ Quiescent
   /\ applied.op = "clear_search_cache"
   /\ \E p \in Procs : procs[p].pc = "done" /\ procs[p].key = applied.key) =>
     \/ /\ applied.key \in DOMAIN search
        /\ applied.key \in active
        /\ Named(search[applied.key].h) \subseteq DOMAIN jobs
     \/ /\ applied.key \notin DOMAIN search
        /\ applied.key \notin active

----------------------------------------------------------------------------
(* bulk_update_job_status beside puts, clears and the clock: EXISTS and     *)
(* HSET of each update are steps of their own, with whole puts, clears and  *)
(* ticks between them; every store call succeeds.                           *)

\* the updates handed to bulk_update_job_status
Update(job_data) == [job_id |-> <<JobId(job_data)>>, status |-> "applied"]

\* an update without job_id and one with nothing but the job_id
UpdateLists ==
  {<<Update(JobA)>>, <<Update(JobA), Update(JobM)>>,
   <<[status |-> "applied"], Update(JobM)>>, <<[job_id |-> <<JobId(JobA)>>]>>}

\* {k: v for k, v in update.items() if k != 'job_id'}
update_fields(update) == Drop(update, {"job_id"})

\* the position after update i: the next update, or the return
Advanced(me, count) ==
  [me EXCEPT !.i = @ + 1, !.updated_count = count,
             !.pc = IF me.i = Len(me.updates) THEN "done" ELSE "exists",
             !.ret = IF me.i = Len(me.updates) THEN count ELSE @]

\* caller p enters bulk_update_job_status(job_updates)
UBegin(p, job_updates) ==
  /\ backend = "redis"
  /\ procs[p].pc = "idle"
  /\ procs' = [procs EXCEPT ![p] =
        [pc |-> "exists", op |-> "bulk_update_job_status", updates |-> job_updates,
         i |-> 1, updated_count |-> 0, ret |-> 0, created |-> {}, existing |-> 0,
         retimed |-> FALSE]]
  /\ UNCHANGED <<backend, now, jobs, search, active, files, putAt, last, applied>>

\* lines 238-244: update.get('job_id'), EXISTS job-scraping:<id> and the test
\* of update_fields
UExists(p) ==
  /\ procs[p].pc = "exists"
  /\ LET me == procs[p]
         update == me.updates[me.i]
         job_id == Get(update, "job_id", <<>>)
     IN  procs' = [procs EXCEPT ![p] =
           IF job_id = <<>> THEN Advanced(me, me.updated_count)
           ELSE IF job_id[1] \in DOMAIN jobs /\ ~IsEmpty(update_fields(update))
           THEN [me EXCEPT !.pc = "hset"]
           ELSE Advanced(me, me.updated_count)]
  /\ UNCHANGED <<backend, now, jobs, search, active, files, putAt, last, applied>>

\* lines 250-251: HSET job-scraping:<id> update_fields; updated_count += 1
UHset(p) ==
  /\ procs[p].pc = "hset"
  /\ LET me == procs[p]
         update == me.updates[me.i]
         job_id == update.job_id[1]
         there == job_id \in DOMAIN jobs
     IN  /\ jobs' = HSet(jobs, job_id, update_fields(update))
         /\ procs' = [procs EXCEPT ![p] =
               [Advanced(me, me.updated_count + 1) EXCEPT
                  !.created = IF there THEN @ ELSE @ \cup {job_id},
                  !.existing = IF there THEN @ + 1 ELSE @,
                  !.retimed = @ \/ (there /\ jobs'[job_id].ttl # jobs[job_id].ttl)]]
  /\ UNCHANGED <<backend, now, search, active, files, putAt, last, applied>>

\* the caller that updates
Updaters == {"a"}

NextU ==
  \/ Tick
  \/ \E l \in JobLists : GetJobs(Query(FALSE), TRUE, l, 0, 0)
  \/ ClearAll(0, Listing(active))
  \/ \E p \in Updaters, ul \in UpdateLists : UBegin(p, ul)
  \/ \E p \in Updaters : UExists(p)
  \/ \E p \in Updaters : UHset(p)

SpecU == InitC /\ [][NextU]_vars

----------------------------------------------------------------------------
(* C33: bulk update touches existing records only *)

\* the callers in bulk_update_job_status
Updating == {p \in Procs : procs[p].pc # "idle" /\ "op" \in DOMAIN procs[p]}

\* C33: bulk_update_job_status never creates a record key that was absent
\* when its HSET was applied, leaves the TTL of an updated record as it was,
\* and returns the number of updates applied to records that existed.
C33_UpdateOnlyExisting ==
  \A p \in Updating :
     /\ procs[p].created = {}
     /\ ~procs[p].retimed
     /\ procs[p].pc = "done" => procs[p].ret = procs[p].existing

----------------------------------------------------------------------------
(* C34: nothing stays in the store forever *)

\* the keys of tbl that carry no TTL, or one beyond the cache duration
Unbounded(tbl) ==
  {k \in DOMAIN tbl : tbl[k].ttl = NoTTL \/ tbl[k].ttl > now + CacheDuration}

\* C34: every job record and every index entry in the store carries a TTL of
\* at most the cache duration.
C34_EveryKeyExpires ==
  backend = "redis" => (Unbounded(jobs) = {} /\ Unbounded(search) = {})

----------------------------------------------------------------------------
(* scrape_jobs page by page: a page fetch that fails ends the loop *)

\* what make_request_with_backoff gives for one page: the cards of the
\* response, or the exception it raises once its retries are used up
Fetched(job_cards) == [ok |-> TRUE, cards |-> job_cards]
FetchError == [ok |-> FALSE, cards |-> <<>>]

\* the cards of one page appended to all_jobs: stop at max_jobs, skip the
\* untrusted ones under trusted_only
RECURSIVE AddCards(_, _, _)
AddCards(job_cards, all_jobs, q) ==
  IF job_cards = <<>> \/ Len(all_jobs) >= q.max_jobs THEN all_jobs
  ELSE IF q.trusted_only /\ ~Head(job_cards).is_trusted_company
       THEN AddCards(Tail(job_cards), all_jobs, q)
       ELSE AddCards(Tail(job_cards), Append(all_jobs, Head(job_cards)), q)

\* the while loop of scrape_jobs over the pages the site serves: the except
\* clause logs the error and breaks, keeping what was gathered
RECURSIVE ScrapePages(_, _, _)
ScrapePages(pages, all_jobs, q) ==
  IF Len(all_jobs) >= q.max_jobs \/ pages = <<>>
  THEN [jobs |-> all_jobs, failed |-> FALSE]
  ELSE IF ~Head(pages).ok THEN [jobs |-> all_jobs, failed |-> TRUE]
  ELSE IF AddCards(Head(pages).cards, all_jobs, q) = all_jobs
       THEN [jobs |-> all_jobs, failed |-> FALSE]
       ELSE ScrapePages(Tail(pages), AddCards(Head(pages).cards, all_jobs, q), q)

\* scrape_jobs returns all_jobs after the loop, however the loop ended (the
\* queries of the model carry no category_filter)
scrape_jobs(q, pages) == ScrapePages(pages, <<>>, q)

\* the pages served to one scrape
PageRuns ==
  {<<FetchError>>, <<Fetched(<<JobA>>), FetchError>>, <<Fetched(<<JobA>>)>>,
   <<Fetched(<<JobA, JobB>>)>>, <<Fetched(<<JobB>>), Fetched(<<JobA>>)>>}

\* get_jobs of the Redis scraper over a scrape served page by page
GetJobsPaged(q, force_refresh, pages) ==
  /\ backend = "redis"
  /\ \E sc \in {scrape_jobs(q, pages)} :
     \E g \in {get_jobs(Ctx(jobs, search, active, 0), q, force_refresh, Returned(sc.jobs),
                        now, 0)} :
         /\ g.hit => pages = <<FetchError>>
         /\ jobs' = g.c.jobs
         /\ search' = g.c.search
         /\ active' = g.c.active
         /\ putAt' = PutAtAfter(IF g.hit THEN {} ELSE {g.key}, g.ok, g.created, search, g.c.search)
         /\ last' = [NoOp EXCEPT !.op = "get_jobs", !.key = g.key, !.force = force_refresh,
                                 !.at = now, !.read = g.read, !.loaded = g.loaded,
                                 !.scrapes = g.scrapes, !.puts = g.puts, !.arg = sc.jobs,
                                 !.ok = g.ok, !.saved = g.saved, !.ret = g.ret,
                                 !.log = g.c.log, !.put = putAt[g.key],
                                 !.fetchfail = (g.scrapes = 1 /\ sc.failed)]
  /\ UNCHANGED <<backend, now, files, procs, applied>>

\* get_jobs of the file scraper over a scrape served page by page
FsGetJobsPaged(q, force_refresh, pages) ==
  /\ backend = "fs"
  /\ \E sc \in {scrape_jobs(q, pages)} :
     \E g \in {fs_get_jobs(FCtx(files, 0), q, force_refresh, Returned(sc.jobs), now)} :
         /\ g.hit => pages = <<FetchError>>
         /\ files' = g.c.files
         /\ putAt' = PutAtAfter(IF g.hit THEN {} ELSE {g.key}, g.ok, now, files, g.c.files)
         /\ last' = [NoOp EXCEPT !.op = "get_jobs", !.key = g.key, !.force = force_refresh,
                                 !.at = now, !.read = g.read, !.loaded = g.loaded,
                                 !.scrapes = g.scrapes, !.puts = g.puts, !.arg = sc.jobs,
                                 !.ok = g.ok, !.ret = g.ret, !.put = putAt[g.key],
                                 !.fetchfail = (g.scrapes = 1 /\ sc.failed)]
  /\ UNCHANGED <<backend, now, jobs, search, active, procs, applied>>

NextE ==
  \/ Tick
  \/ \E q \in Queries, force \in BOOLEAN, pages \in PageRuns : GetJobsPaged(q, force, pages)
  \/ \E q \in Queries, force \in BOOLEAN, pages \in PageRuns : FsGetJobsPaged(q, force, pages)

SpecE == Init /\ [][NextE]_vars

----------------------------------------------------------------------------
(* C35: a scrape whose page fetch failed *)

\* C35: a get_jobs whose scrape lost a page fetch writes nothing for the
\* query, and the next get_jobs of the same query, not forced and within the
\* cache duration, scrapes again.
C35_FailedScrapeNotCached ==
  [][/\ (last'.op = "get_jobs" /\ last'.fetchfail) => last'.puts = 0
     /\ (/\ last.op = "get_jobs" /\ last.fetchfail
         /\ last'.op = "get_jobs" /\ last'.key = last.key /\ ~last'.force
         /\ last'.at <= last.at + CacheDuration)
        => last'.scrapes = 1]_vars

----------------------------------------------------------------------------
(* Single records saved one after another on one store *)

\* postings drawn from short titles and company names
Postings ==
  {Scraped(title, company, location, "", TRUE) :
     title \in {<<"a">>, <<"a","b">>}, company \in {<<"c">>, <<"b","c">>},
     location \in {NYC}}

\* RedisJobDataCache.save_job_to_redis(job_data)
SaveJobToRedis(job_data) ==
  /\ backend = "redis"
  /\ \E r \in {save_job_to_redis(Ctx(jobs, search, active, 0), job_data, now)} :
         /\ jobs' = r.c.jobs
         /\ last' = [NoOp EXCEPT !.op = "save_job_to_redis", !.arg = job_data, !.at = now,
                                 !.ok = r.ok, !.ret = r.ok, !.log = r.c.log, !.held = jobs]
  /\ UNCHANGED <<backend, now, search, active, files, putAt, procs, applied>>

NextJ ==
  \/ Tick
  \/ \E job_data \in Postings : SaveJobToRedis(job_data)

SpecJ == InitC /\ [][NextJ]_vars

----------------------------------------------------------------------------
(* C36: different postings, different record ids *)

\* the records held before the call whose (title, company, location) differs
\* from that of the record saved
Others == {k \in DOMAIN last.held : Triple(last.held[k].h) # Triple(last.arg)}

\* C36: the string save_job_to_redis hashes for a record without job_id
\* differs from that of every stored record with another (title, company,
\* location), and the save leaves every such record as it was.
C36_DistinctPostingsDistinctSource ==
  last.op = "save_job_to_redis" =>
     \A k \in Others :
        /\ job_id_source(last.held[k].h) # job_id_source(last.arg)
        /\ k \in DOMAIN jobs /\ jobs[k].h = last.held[k].h

----------------------------------------------------------------------------
(* C37: a search below its limit is complete *)

\* the job_ids of the records a search returned
ReturnedIds == {last.ret[i].job_id : i \in 1..Len(last.ret)}

\* C37: when search_jobs_by_criteria, with limit > 0 and no store error,
\* returns fewer than limit records, the records returned are exactly the
\* stored records that satisfy every supplied predicate.
C37_BelowLimitComplete ==
  (/\ last.op = "search_jobs_by_criteria" /\ ~last.failed
   /\ last.arg.limit > 0 /\ Len(last.ret) < last.arg.limit)
     => ReturnedIds = Matching(last.arg)

\* three records are stored; a search with limit 2 returns the single record
\* that satisfies its predicates and passes over the two others
C37_Witness ==
  /\ last.op = "search_jobs_by_criteria" /\ ~last.failed
  /\ Cardinality(DOMAIN jobs) = 3
  /\ last.arg.limit = 2 /\ Len(last.ret) = 1
  /\ Matching(last.arg) = ReturnedIds
  /\ Cardinality(Matching(last.arg)) = 1

----------------------------------------------------------------------------
(* LinkedInJobScraper.make_request_with_backoff, one library call a step *)

\* max_retries=3 as scrape_jobs passes it
page_max_retries == 3

\* the status codes a response may carry; 999 is what the site answers to a
\* client it turns away
StatusCodes == {200, 302, 404, 429, 503, 999}

\* what session.get can raise
RequestErrors == {"Timeout", "ConnectionError", "Exception"}

\* what one session.get gives: a response, or an exception
Outcomes ==
  {[kind |-> "response", status_code |-> st] : st \in StatusCodes}
     \cup {[kind |-> e, status_code |-> 0] : e \in RequestErrors}

\* the call before its first request
Requesting ==
  [op |-> "make_request_with_backoff", pc |-> "get", attempt |-> 0, got |-> <<>>,
   slept |-> <<>>, ret |-> <<>>, raised |-> <<>>]

InitB == Cold /\ applied = Requesting

\* if attempt == max_retries - 1
FinalAttempt(attempt) == attempt = page_max_retries - 1

\* Response.raise_for_status() of the requests library: HTTPError for a
\* status from 400 to 599, nothing otherwise
raise_for_status(status_code) == 400 <= status_code /\ status_code < 600

\* the body of the try for a response
Responded(me, response) ==
  IF response.status_code = 429 THEN [me EXCEPT !.pc = "sleep"]
  ELSE IF response.status_code >= 400
  THEN IF FinalAttempt(me.attempt)
       THEN IF raise_for_status(response.status_code)
            THEN [me EXCEPT !.pc = "raised", !.raised = <<"HTTPError">>]
            ELSE [me EXCEPT !.pc = "returned", !.ret = <<response.status_code>>]
       ELSE [me EXCEPT !.pc = "sleep"]
  ELSE [me EXCEPT !.pc = "returned", !.ret = <<response.status_code>>]

\* the three except clauses: raise on the last attempt, else wait
Excepted(me, e) ==
  IF FinalAttempt(me.attempt) THEN [me EXCEPT !.pc = "raised", !.raised = <<e>>]
  ELSE [me EXCEPT !.pc = "sleep"]

\* self.session.get(url, params=params, timeout=base_timeout) and what
\* follows it up to the next sleep, return or raise
SessionGet(outcome) ==
  /\ applied.op = "make_request_with_backoff" /\ applied.pc = "get"
  /\ applied' =
       IF outcome.kind = "response"
       THEN Responded([applied EXCEPT !.got = Append(@, outcome)], outcome)
       ELSE Excepted([applied EXCEPT !.got = Append(@, outcome)], outcome.kind)
  /\ UNCHANGED <<backend, now, jobs, search, active, files, putAt, last, procs>>

\* time.sleep(2 ** attempt), then the next turn of the loop, or the raise
\* below the loop when there is none
RequestSleep ==
  /\ applied.op = "make_request_with_backoff" /\ applied.pc = "sleep"
  /\ applied' =
       IF applied.attempt + 1 < page_max_retries
       THEN [applied EXCEPT !.slept = Append(@, 2 ^ applied.attempt), !.attempt = @ + 1,
                            !.pc = "get"]
       ELSE [applied EXCEPT !.slept = Append(@, 2 ^ applied.attempt), !.pc = "raised",
                            !.raised = <<"Exception">>]
  /\ UNCHANGED <<backend, now, jobs, search, active, files, putAt, last, procs>>

NextB ==
  \/ \E outcome \in Outcomes : SessionGet(outcome)
  \/ RequestSleep

SpecB == InitB /\ [][NextB]_vars

----------------------------------------------------------------------------
(* C38: the request loop is bounded and returns only a good response *)

\* the outcome failed: an exception, or a response with a status of 400 up
FailedOutcome(outcome) == outcome.kind # "response" \/ outcome.status_code >= 400

\* C38: make_request_with_backoff issues at most max_retries requests,
\* returns only a response whose status is below 400, does not return when
\* every attempt failed, waits 2^i after failed attempt i before request
\* i + 1, and stops exactly when it has returned or raised.
C38_BoundedBackoff ==
  applied.op = "make_request_with_backoff" =>
     /\ Len(applied.got) <= page_max_retries
     /\ applied.pc = "returned" =>
           /\ ~FailedOutcome(applied.got[Len(applied.got)])
           /\ applied.ret = <<applied.got[Len(applied.got)].status_code>>
     /\ (\A i \in 1..Len(applied.got) : FailedOutcome(applied.got[i]))
           => applied.pc # "returned"
     /\ applied.pc = "get" => Len(applied.slept) = Len(applied.got)
     /\ \A i \in 1..Len(applied.slept) : applied.slept[i] = 2 ^ (i - 1)
     /\ applied.pc \in {"returned", "raised"} <=> ~ENABLED NextB

============================================================================
